---- MODULE Spec2Model ----
(***************************************************************************)
(* A model of helix-gpui: the document rendering pipeline                  *)
(* (src/src/document.rs): the Style Resolver (StyleIter), the run builder  *)
(* (DocumentElement::highlight) and the visible-range computation of       *)
(* DocumentElement::paint; and the application side                        *)
(* (src/src/application.rs, utils.rs, workspace.rs): the diagnostics       *)
(* store, the language-server calls, the input events, the cell buffer     *)
(* conversion and the key results.                                         *)
(*                                                                         *)
(* The specifications share the variables below:                           *)
(*   SpecStyle      one StyleIter walking one legal highlight-event stream *)
(*   SpecMalformed  the same over any event stream                         *)
(*   SpecRuns       DocumentElement::highlight over two StyleIters         *)
(*   SpecScenario   DocumentElement::highlight over "fn <name>() {}\n"     *)
(*   SpecOverlay    DocumentElement::overlay_highlights and merge          *)
(*   SpecPaint      the visible range, the shaping and the gutter lines of *)
(*                  one paint                                              *)
(*   SpecHighlights DocumentView::highlights (src/src/workspace.rs)        *)
(*   SpecLoop       the loop of DocumentElement::highlight, under weak     *)
(*                  fairness of its steps                                  *)
(*   SpecDiagnostics  PublishDiagnostics and Exit (src/src/application.rs) *)
(*   SpecMethodCalls  the language servers' method calls                   *)
(*   SpecInput      Application::handle_input_event                        *)
(*   SpecCells      TextWithStyle::from_buffer (src/src/utils.rs)          *)
(*   SpecKeys       handle_key_result (src/src/workspace.rs)               *)
(* Each leaves the variables it does not use at their idle values.         *)
(***************************************************************************)
EXTENDS Integers, Sequences, FiniteSets, TLC

VARIABLES
    \* ---- StyleIter (SpecStyle) ----
    iter,               \* the StyleIter: text_style, active_highlights, highlight_iter
    yielded,            \* the items next() has returned so far, in order
    last_step,          \* the last event consumed and what the step did with it
    \* ---- DocumentElement::highlight (SpecRuns) ----
    pc,                 \* "idle" | "start" | "loop" | "done"
    anchor,             \* first visible char (highlight's `anchor`)
    end_char,           \* one past the last visible char
    syntax_highlights,  \* the syntax event stream handed to highlight
    overlay_highlights, \* the overlay event stream handed to highlight
    syntax_styles,      \* StyleIter over syntax_highlights
    overlay_styles,     \* StyleIter over overlay_highlights
    syntax_span,        \* cursor: current syntax span or the sentinel
    overlay_span,       \* cursor: current overlay span or the sentinel
    position,           \* the loop's `position`
    runs,               \* Vec<TextRun>
    log,                \* per run: position, cursors and style at emission
    \* ---- DocumentElement::paint (SpecPaint) ----
    ppc,                \* "idle" | "layout" | "frame" | "ranged" | "shaped" | "painted" |
                        \* "panicked" | "shape_text_panicked" | "shape_line_panicked"
    text,               \* the document's rope, as a sequence of chars
    view_anchor,        \* view.offset.anchor
    layout_rows,        \* after_layout.rows
    layout_columns,     \* after_layout.columns
    soft_wrap,          \* whether the document's text format wraps long lines
    first_row,
    last_row,
    text_view,          \* the sliced char range <<start, end>>
    gutter_lines,       \* the LinePos handed to the gutters
    view_area,          \* the area of the editor's view tree: <<width, height>>
    \* ---- DocumentElement::overlay_highlights (SpecOverlay) ----
    opc,                \* "idle" | "start" | "gate" | "diagnostics" | "done"
    is_view_focused,
    selection,          \* the selection ranges of the view
    focused_view_elements, \* spans of highlight_focused_view_elements
    diagnostics,        \* the buckets of doc_diagnostics_highlights, in order
    view_chars,         \* <<start, end>>: the chars empty_highlight_iter covers
    overlay_iter,       \* the local `overlay_highlights`: the stream built so far
    bucket,             \* index of the next diagnostic bucket of the for loop
    merges,             \* per merge performed: its spans and the stream it merged onto
    \* ---- DocumentView::highlights, workspace.rs (SpecHighlights) ----
    hpc,                \* "idle" | "iter" | "nosyntax" | "done" | "panicked"
    hl_text,            \* the rope: per char its byte width and cluster flag
    hl_events,          \* what is left of syn.highlight_iter(..): Results
    current_region,
    regions,
    converted,          \* per Source converted: byte offsets in, char offsets out
    \* ---- handle_language_server_message, application.rs (SpecDiagnostics) ----
    editor_diagnostics, \* editor.diagnostics: path -> Vec<(Diagnostic, server id)>
    language_servers,   \* the registry: server id -> is_initialized()
    documents,          \* the open documents: path, version, diagnostics
    notification,       \* the notification handled last and what became of it
    published,          \* per path and server: the list stored last, until Exit
    \* ---- step / handle_language_server_message: method calls (SpecMethodCalls) ----
    mpc,                \* "idle" | "reply": where the handler of the current call is
    incoming,           \* the language-server messages editor.wait_event() will yield
    next_id,            \* the id the next call received carries
    dequeued,           \* the calls step() took from the queue, in order
    reply,              \* the local `reply` of the call being handled
    replies,            \* what language_server.reply(id, reply) was called with
    \* ---- Application::handle_input_event (SpecInput) ----
    compositor,         \* which overlays the compositor holds: picker, prompt
    autoinfo,           \* editor.autoinfo: <<>> (None) or <<"info">>
    updates,            \* every crate::Update passed to cx.emit, in order
    inputs,             \* per input event handled: who was offered it, what it emitted
    \* ---- TextWithStyle::from_buffer, utils.rs (SpecCells) ----
    tpc,                \* "idle" | "rows" | "done"
    buf,                \* the tui Buffer: rows of cells (symbol, style)
    buf_y,              \* the row the outer loop is at (from 1)
    styled_text,        \* the local `text`, as the symbols pushed
    styled_highlights,  \* the local `highlights`: (range, style) in order
    \* ---- handle_key_result, workspace.rs and utils.rs (SpecKeys) ----
    kpc,                \* "idle" | "match" | "done"
    key_result,         \* the KeymapResult argument
    mode,               \* the `mode` argument
    editor_mode,        \* cxt.editor.mode()
    last_mode,          \* the local `last_mode`
    commands_left,      \* the commands the match has yet to execute
    executed,           \* per command executed: the editor's mode before and
                        \* after it and whether OnModeSwitch was dispatched
    returned,           \* <<>> until the function returns, then its value
    key_entry           \* editor.autoinfo when the function was entered

styleVars == <<iter, yielded, last_step>>
runVars   == <<pc, syntax_highlights, overlay_highlights, syntax_styles,
               overlay_styles, syntax_span, overlay_span, position, runs, log>>
rangeVars == <<anchor, end_char>>
paintVars == <<ppc, text, view_anchor, layout_rows, layout_columns, soft_wrap,
               first_row, last_row, text_view, gutter_lines, view_area>>
overlayVars == <<opc, is_view_focused, selection, focused_view_elements,
                 diagnostics, view_chars, overlay_iter, bucket, merges>>
regionVars == <<hpc, hl_text, hl_events, current_region, regions, converted>>
diagVars == <<editor_diagnostics, language_servers, documents, notification,
              published>>
callVars == <<mpc, incoming, next_id, dequeued, reply, replies>>
inputVars == <<compositor, autoinfo, updates, inputs>>
cellVars == <<tpc, buf, buf_y, styled_text, styled_highlights>>
keyVars == <<kpc, key_result, mode, editor_mode, last_mode, commands_left, executed,
             returned, key_entry>>
appVars == <<diagVars, callVars, inputVars, cellVars, keyVars>>
vars == <<styleVars, runVars, rangeVars, paintVars, overlayVars, regionVars, appVars>>

(***************************************************************************)
(* Bounds of the model.                                                    *)
(***************************************************************************)
MaxOffset == 2      \* SpecStyle: Source offsets are in 0..MaxOffset
MaxEvents == 4      \* SpecStyle: events in one highlight stream
MaxPos    == 3      \* SpecRuns: char offsets are in 0..MaxPos
MaxSpans  == 2      \* SpecRuns: spans in one stream
MaxChars  == 3      \* SpecPaint: chars in the buffer
MaxRows   == 2      \* SpecPaint: after_layout.rows is in 0..MaxRows
MaxColumns == 2     \* SpecPaint: after_layout.columns is in 1..MaxColumns

\* usize::MAX, the end of the sentinel span. Only its order relative to the
\* offsets matters; it is narrowed to the model checker's integer range.
UsizeMax == 2147483647

Min(a, b) == IF a <= b THEN a ELSE b

(***************************************************************************)
(* helix_view::graphics::Style, reduced to the three fields the renderer   *)
(* reads. None is Option::None.                                            *)
(***************************************************************************)
None == "None"

DefaultStyle == [fg |-> None, bg |-> None, underline_color |-> None]

\* Style::patch: every field `other` sets overwrites, the rest is kept.
Patch(self, other) ==
    [fg              |-> IF other.fg # None THEN other.fg ELSE self.fg,
     bg              |-> IF other.bg # None THEN other.bg ELSE self.bg,
     underline_color |-> IF other.underline_color # None
                         THEN other.underline_color ELSE self.underline_color]

\* The highlight tags of the theme and theme.highlight(tag).
Tags == {1, 2, 3}

ThemeHighlight(tag) ==
    CASE tag = 1 -> [fg |-> "Red",  bg |-> None,     underline_color |-> None]
      [] tag = 2 -> [fg |-> "Blue", bg |-> "Black",  underline_color |-> None]
      [] tag = 3 -> [fg |-> None,   bg |-> "Yellow", underline_color |-> "Red"]
      [] tag = 4 -> [fg |-> "Green", bg |-> None,    underline_color |-> "Yellow"]
      [] tag = 5 -> [fg |-> None,   bg |-> "White",  underline_color |-> None]

\* utils::color_to_hsla on the colours the theme uses.
color_to_hsla(color) ==
    CASE color = "White"  -> "hsla(0,0,1,1)"
      [] color = "Black"  -> "hsla(0,0,0,1)"
      [] color = "Blue"   -> "hsla(0.66,1,0.5,1)"
      [] color = "Green"  -> "hsla(0.33,1,0.5,1)"
      [] color = "Red"    -> "hsla(0,1,0.5,1)"
      [] color = "Yellow" -> "hsla(0.16,1,0.5,1)"
      [] color = "Reset"  -> None

\* Option::and_then(color_to_hsla)
AndThenHsla(opt) == IF opt = None THEN None ELSE color_to_hsla(opt)

(***************************************************************************)
(* HighlightEvent                                                          *)
(***************************************************************************)
HighlightStart(h) == [type |-> "HighlightStart", highlight |-> h, start |-> 0, end |-> 0]
HighlightEnd      == [type |-> "HighlightEnd",   highlight |-> 0, start |-> 0, end |-> 0]
Source(s, e)      == [type |-> "Source",         highlight |-> 0, start |-> s, end |-> e]

NoEvent == [type |-> "None", highlight |-> 0, start |-> 0, end |-> 0]

(***************************************************************************)
(* StyleIter                                                               *)
(***************************************************************************)
NewStyleIter(base, events) ==
    [text_style |-> base, active_highlights |-> <<>>, highlight_iter |-> events]

NoItem == [some |-> FALSE, style |-> DefaultStyle, start |-> 0, end |-> 0]
Item(style, s, e) == [some |-> TRUE, style |-> style, start |-> s, end |-> e]

\* Vec::pop: the last element removed, nothing on an empty Vec.
Pop(stack) == IF stack = <<>> THEN stack ELSE SubSeq(stack, 1, Len(stack) - 1)

\* active_highlights.iter().fold(text_style, |acc, span| acc.patch(theme.highlight(span.0)))
RECURSIVE FoldStyle(_, _)
FoldStyle(acc, stack) ==
    IF stack = <<>> THEN acc
    ELSE FoldStyle(Patch(acc, ThemeHighlight(Head(stack))), Tail(stack))

SkipNever(start, end) == FALSE

\* `if start == end { continue; }`
SkipSource(start, end) == start = end

FoldTopOnly(it) ==
    IF it.active_highlights = <<>> THEN it.text_style
    ELSE Patch(it.text_style,
               ThemeHighlight(it.active_highlights[Len(it.active_highlights)]))

\* The style a non-empty Source yields.
ResolveStyle(it) == FoldStyle(it.text_style, it.active_highlights)

\* One turn of the `while let Some(event)` loop of StyleIter::next:
\* what = "continue" (loop again), "yield" (return Some(item)) or
\* "none" (the stream is exhausted, return None).
StyleIterStep(it) ==
    IF it.highlight_iter = <<>>
    THEN [what |-> "none", item |-> NoItem, iter |-> it, event |-> NoEvent]
    ELSE LET event == Head(it.highlight_iter)
             rest  == [it EXCEPT !.highlight_iter = Tail(@)]
         IN CASE event.type = "HighlightStart" ->
                   [what |-> "continue", item |-> NoItem, event |-> event,
                    iter |-> [rest EXCEPT !.active_highlights =
                                              Append(@, event.highlight)]]
              [] event.type = "HighlightEnd" ->
                   [what |-> "continue", item |-> NoItem, event |-> event,
                    iter |-> [rest EXCEPT !.active_highlights = Pop(@)]]
              [] event.type = "Source" ->
                   IF SkipSource(event.start, event.end)
                   THEN [what |-> "continue", item |-> NoItem, event |-> event,
                         iter |-> rest]
                   ELSE [what |-> "yield", event |-> event, iter |-> rest,
                         item |-> Item(ResolveStyle(it), event.start, event.end)]

\* StyleIter::next: loop until a span is yielded or the stream ends.
RECURSIVE StyleIterNext(_)
StyleIterNext(it) ==
    LET r == StyleIterStep(it)
    IN IF r.what = "continue" THEN StyleIterNext(r.iter) ELSE r

(***************************************************************************)
(* Idle values: what a specification gives the variables it does not use.  *)
(***************************************************************************)
StyleIdle ==
    /\ iter = NewStyleIter(DefaultStyle, <<>>)
    /\ yielded = <<>>
    /\ last_step = [what |-> "idle", event |-> NoEvent, before |-> <<>>, n_yielded |-> 0]

RunIdle ==
    /\ pc = "idle"
    /\ syntax_highlights = <<>>
    /\ overlay_highlights = <<>>
    /\ syntax_styles = NewStyleIter(DefaultStyle, <<>>)
    /\ overlay_styles = NewStyleIter(DefaultStyle, <<>>)
    /\ syntax_span = [style |-> DefaultStyle, start |-> 0, end |-> 0]
    /\ overlay_span = [style |-> DefaultStyle, start |-> 0, end |-> 0]
    /\ position = 0
    /\ runs = <<>>
    /\ log = <<>>

RangeIdle ==
    /\ anchor = 0
    /\ end_char = 0

PaintIdle ==
    /\ ppc = "idle"
    /\ text = <<>>
    /\ view_anchor = 0
    /\ layout_rows = 0
    /\ layout_columns = 0
    /\ soft_wrap = FALSE
    /\ first_row = 0
    /\ last_row = 0
    /\ text_view = <<0, 0>>
    /\ gutter_lines = <<>>
    /\ view_area = <<0, 0>>

OverlayIdle ==
    /\ opc = "idle"
    /\ is_view_focused = FALSE
    /\ selection = <<>>
    /\ focused_view_elements = <<>>
    /\ diagnostics = <<>>
    /\ view_chars = <<0, 0>>
    /\ overlay_iter = <<>>
    /\ bucket = 0
    /\ merges = <<>>

RegionIdle ==
    /\ hpc = "idle"
    /\ hl_text = <<>>
    /\ hl_events = <<>>
    /\ current_region = [start |-> 0, end |-> 0, hl |-> 0]
    /\ regions = <<>>
    /\ converted = <<>>

DiagIdle ==
    /\ editor_diagnostics = <<>>
    /\ language_servers = <<>>
    /\ documents = <<>>
    /\ notification = [kind |-> "idle"]
    /\ published = <<>>

CallIdle ==
    /\ mpc = "idle"
    /\ incoming = <<>>
    /\ next_id = 0
    /\ dequeued = <<>>
    /\ reply = <<>>
    /\ replies = <<>>

InputIdle ==
    /\ compositor = [picker |-> FALSE, prompt |-> FALSE]
    /\ autoinfo = <<>>
    /\ updates = <<>>
    /\ inputs = <<>>

CellIdle ==
    /\ tpc = "idle"
    /\ buf = <<>>
    /\ buf_y = 0
    /\ styled_text = <<>>
    /\ styled_highlights = <<>>

KeyIdle ==
    /\ kpc = "idle"
    /\ key_result = <<>>
    /\ mode = ""
    /\ editor_mode = ""
    /\ last_mode = ""
    /\ commands_left = <<>>
    /\ executed = <<>>
    /\ returned = <<>>
    /\ key_entry = <<>>

AppIdle ==
    /\ DiagIdle
    /\ CallIdle
    /\ InputIdle
    /\ CellIdle
    /\ KeyIdle

(***************************************************************************)
(* SpecStyle: one StyleIter over one legal highlight-event stream.         *)
(* A legal stream (spec, 3): every HighlightEnd closes an open             *)
(* HighlightStart, every Source has start <= end, and consecutive Sources  *)
(* are non-decreasing and non-overlapping.                                 *)
(***************************************************************************)
StyleEvents ==
    {HighlightStart(h) : h \in Tags} \cup {HighlightEnd}
        \cup {Source(s, e) : s \in 0..MaxOffset, e \in 0..MaxOffset}

CountType(s, type) == Cardinality({i \in 1..Len(s) : s[i].type = type})

\* Whether stream s followed by event ev is still a legal stream.
CanFollow(s, ev) ==
    CASE ev.type = "HighlightStart" -> TRUE
      [] ev.type = "HighlightEnd" ->
            CountType(s, "HighlightStart") > CountType(s, "HighlightEnd")
      [] ev.type = "Source" ->
            /\ ev.start <= ev.end
            /\ \A i \in 1..Len(s) : s[i].type = "Source" => s[i].end <= ev.start

\* The legal streams of at most n events.
RECURSIVE LegalStreams(_)
LegalStreams(n) ==
    IF n = 0 THEN {<<>>}
    ELSE LET shorter == LegalStreams(n - 1)
         IN shorter \cup
            {Append(q[1], q[2]) :
                q \in {r \in shorter \X StyleEvents : CanFollow(r[1], r[2])}}

\* The base styles a caller seeds the fold with.
BaseStyles == {DefaultStyle, [fg |-> "White", bg |-> None, underline_color |-> "Blue"]}

InitStyle ==
    /\ \E s \in LegalStreams(MaxEvents), base \in BaseStyles :
          iter = NewStyleIter(base, s)
    /\ yielded = <<>>
    /\ last_step = [what |-> "idle", event |-> NoEvent, before |-> <<>>, n_yielded |-> 0]
    /\ RunIdle /\ RangeIdle /\ PaintIdle /\ OverlayIdle /\ RegionIdle /\ AppIdle

\* One turn of StyleIter::next's loop whose outcome is `what` on an event of `type`.
StyleTurn(what, type) ==
    LET r == StyleIterStep(iter)
    IN /\ r.what = what
       /\ r.event.type = type
       /\ iter' = r.iter
       /\ yielded' = IF r.what = "yield" THEN Append(yielded, r.item) ELSE yielded
       /\ last_step' = [what |-> r.what, event |-> r.event,
                        before |-> iter.active_highlights,
                        n_yielded |-> Len(yielded)]
       /\ UNCHANGED <<runVars, rangeVars, paintVars, overlayVars, regionVars, appVars>>

OnHighlightStart ==
    /\ pc = "idle" /\ ppc = "idle"
    /\ StyleTurn("continue", "HighlightStart")

OnHighlightEnd ==
    /\ pc = "idle" /\ ppc = "idle"
    /\ StyleTurn("continue", "HighlightEnd")

OnSourceEmpty ==
    /\ pc = "idle" /\ ppc = "idle"
    /\ StyleTurn("continue", "Source")

OnSource ==
    /\ pc = "idle" /\ ppc = "idle"
    /\ StyleTurn("yield", "Source")

OnExhausted ==
    /\ pc = "idle" /\ ppc = "idle"
    /\ StyleTurn("none", "None")

NextStyle ==
    \/ OnHighlightStart
    \/ OnHighlightEnd
    \/ OnSourceEmpty
    \/ OnSource
    \/ OnExhausted

SpecStyle == InitStyle /\ [][NextStyle]_vars

(***************************************************************************)
(* SpecMalformed: the same StyleIter over any event stream, legal or not:  *)
(* a producer may yield a HighlightEnd that closes nothing and Sources in  *)
(* any order.                                                              *)
(***************************************************************************)
MaxBadEvents == 3   \* SpecMalformed: events in one stream

AnyStreams(n) == UNION {[1..k -> StyleEvents] : k \in 0..n}

InitMalformed ==
    /\ \E s \in AnyStreams(MaxBadEvents) : iter = NewStyleIter(DefaultStyle, s)
    /\ yielded = <<>>
    /\ last_step = [what |-> "idle", event |-> NoEvent, before |-> <<>>, n_yielded |-> 0]
    /\ RunIdle /\ RangeIdle /\ PaintIdle /\ OverlayIdle /\ RegionIdle /\ AppIdle

SpecMalformed == InitMalformed /\ [][NextStyle]_vars

(***************************************************************************)
(* SpecRuns: DocumentElement::highlight, the run builder.                  *)
(* Its two event streams are the inputs. A stream is built from at most    *)
(* MaxSpans segments, each a non-empty Source under a stack of tags;       *)
(* segments are ordered and do not overlap, gaps between them are allowed. *)
(***************************************************************************)
\* The tag stacks a syntax segment, and an overlay segment, may carry.
SyntaxScopes  == {<<>>, <<1>>, <<2>>}
OverlayScopes == {<<>>, <<3>>}

Segment(tags, s, e) == [tags |-> tags, start |-> s, end |-> e]

LastEnd(segs) == IF segs = <<>> THEN 0 ELSE segs[Len(segs)].end

\* The ordered, non-overlapping segment sequences of at most n segments.
RECURSIVE SegmentStreams(_, _)
SegmentStreams(n, scopes) ==
    IF n = 0 THEN {<<>>}
    ELSE LET shorter == SegmentStreams(n - 1, scopes)
         IN shorter \cup
            {Append(q[1], Segment(q[2], q[3], q[4])) :
                q \in {r \in shorter \X scopes \X (0..MaxPos) \X (0..MaxPos) :
                          LastEnd(r[1]) <= r[3] /\ r[3] < r[4]}}

RECURSIVE Starts(_)
Starts(tags) ==
    IF tags = <<>> THEN <<>> ELSE <<HighlightStart(Head(tags))>> \o Starts(Tail(tags))

Ends(tags) == [i \in 1..Len(tags) |-> HighlightEnd]

\* The event stream of a segment sequence.
RECURSIVE ToEvents(_)
ToEvents(segs) ==
    IF segs = <<>> THEN <<>>
    ELSE LET g == Head(segs)
         IN Starts(g.tags) \o <<Source(g.start, g.end)>> \o Ends(g.tags)
                \o ToEvents(Tail(segs))

\* `fg_color`, the theme's default foreground, already an Hsla.
FgColor == "fg_color"

\* A cursor: the (style, start, end) tuple of syntax_span / overlay_span.
Span(style, s, e) == [style |-> style, start |-> s, end |-> e]

\* `.next().unwrap_or((style, 0, usize::MAX))`
NextOr(r, style) ==
    IF r.what = "yield" THEN Span(r.item.style, r.item.start, r.item.end)
    ELSE Span(style, 0, UsizeMax)

\* `position < syn_start && position < ovl_start`
IsDefault(pos, syn, ovl) == pos < syn.start /\ pos < ovl.start

RunStyleSyntaxOnTop(pos, syn, ovl) ==
    IF IsDefault(pos, syn, ovl) THEN DefaultStyle
    ELSE LET s1 == IF pos >= ovl.start /\ pos < ovl.end
                   THEN Patch(DefaultStyle, ovl.style) ELSE DefaultStyle
         IN IF pos >= syn.start /\ pos < syn.end THEN Patch(s1, syn.style) ELSE s1

\* The style of the run at `pos` (the first element of the `(style, is_default)` pair).
RunStyle(pos, syn, ovl) ==
    IF IsDefault(pos, syn, ovl) THEN DefaultStyle
    ELSE LET s1 == IF pos >= syn.start /\ pos < syn.end
                   THEN Patch(DefaultStyle, syn.style) ELSE DefaultStyle
         IN IF pos >= ovl.start /\ pos < ovl.end THEN Patch(s1, ovl.style) ELSE s1

\* `end.checked_sub(position).unwrap_or(usize::MAX)`
CheckedSubOrMax(end, pos) == IF end >= pos THEN end - pos ELSE UsizeMax

RunLenOverlayOnly(pos, syn, ovl) == CheckedSubOrMax(ovl.end, pos)

\* The run's `len` before the clamp.
RunLen(pos, syn, ovl) ==
    IF IsDefault(pos, syn, ovl) THEN Min(syn.start, ovl.start) - pos
    ELSE Min(CheckedSubOrMax(syn.end, pos), CheckedSubOrMax(ovl.end, pos))

ClampLenZero(len, endc) == 0

\* `let len = std::cmp::min(len, end_char);`
ClampLen(len, endc) == Min(len, endc)

\* The TextRun pushed for `style` and `len` (font and strikethrough are fixed).
TextRun(style, len) ==
    [len |-> len,
     color |-> IF AndThenHsla(style.fg) # None THEN AndThenHsla(style.fg) ELSE FgColor,
     background_color |-> AndThenHsla(style.bg),
     underline |-> AndThenHsla(style.underline_color)]

InitRuns ==
    /\ pc = "start"
    /\ anchor \in 0..MaxPos
    /\ end_char \in anchor..MaxPos
    /\ \E segs \in SegmentStreams(MaxSpans, SyntaxScopes) :
          syntax_highlights = ToEvents(segs)
    /\ \E segs \in SegmentStreams(MaxSpans, OverlayScopes) :
          overlay_highlights = ToEvents(segs)
    /\ syntax_styles = NewStyleIter(DefaultStyle, <<>>)
    /\ overlay_styles = NewStyleIter(DefaultStyle, <<>>)
    /\ syntax_span = Span(DefaultStyle, 0, 0)
    /\ overlay_span = Span(DefaultStyle, 0, 0)
    /\ position = 0
    /\ runs = <<>>
    /\ log = <<>>
    /\ StyleIdle /\ PaintIdle /\ OverlayIdle /\ RegionIdle /\ AppIdle

\* highlight, up to the loop: the two StyleIters, their first spans, position.
HighlightBegin ==
    /\ pc = "start"
    /\ LET syn == StyleIterNext(NewStyleIter(DefaultStyle, syntax_highlights))
           ovl == StyleIterNext(NewStyleIter(DefaultStyle, overlay_highlights))
       IN /\ syntax_styles' = syn.iter
          /\ overlay_styles' = ovl.iter
          /\ syntax_span' = NextOr(syn, DefaultStyle)
          /\ overlay_span' = NextOr(ovl, DefaultStyle)
    /\ position' = anchor
    /\ runs' = <<>>
    /\ log' = <<>>
    /\ pc' = "loop"
    /\ UNCHANGED <<syntax_highlights, overlay_highlights, rangeVars, styleVars, paintVars,
                   overlayVars, regionVars, appVars>>

\* One iteration of highlight's loop. `more` tells whether the loop goes on
\* (position < end_char after the run) and the cursors are advanced.
HighlightIteration(more) ==
    /\ pc = "loop"
    /\ LET style == RunStyle(position, syntax_span, overlay_span)
           len   == ClampLen(RunLen(position, syntax_span, overlay_span), end_char)
           pos1  == position + len
       IN /\ runs' = Append(runs, TextRun(style, len))
          /\ log' = Append(log, [position |-> position, syntax_span |-> syntax_span,
                                 overlay_span |-> overlay_span, style |-> style])
          /\ position' = pos1
          /\ more = (pos1 < end_char)
          /\ IF pos1 >= end_char
             THEN /\ pc' = "done"
                  /\ UNCHANGED <<syntax_styles, overlay_styles, syntax_span, overlay_span>>
             ELSE /\ pc' = "loop"
                  /\ IF pos1 >= syntax_span.end
                     THEN LET r == StyleIterNext(syntax_styles)
                          IN /\ syntax_styles' = r.iter
                             /\ syntax_span' = NextOr(r, style)
                     ELSE UNCHANGED <<syntax_styles, syntax_span>>
                  /\ IF pos1 >= overlay_span.end
                     THEN LET r == StyleIterNext(overlay_styles)
                          IN /\ overlay_styles' = r.iter
                             /\ overlay_span' = NextOr(r, style)
                     ELSE UNCHANGED <<overlay_styles, overlay_span>>
    /\ UNCHANGED <<syntax_highlights, overlay_highlights, rangeVars, styleVars, paintVars,
                   overlayVars, regionVars, appVars>>

\* `position < end_char` after the run: the cursors advance and the loop goes on.
HighlightLoop ==
    /\ ppc = "idle"
    /\ HighlightIteration(TRUE)

\* `if position >= end_char { break; }`
HighlightBreak ==
    /\ ppc = "idle"
    /\ HighlightIteration(FALSE)

NextRuns ==
    \/ HighlightBegin
    \/ HighlightLoop
    \/ HighlightBreak

SpecRuns == InitRuns /\ [][NextRuns]_vars

(***************************************************************************)
(* SpecLoop: DocumentElement::highlight over any two finite streams of     *)
(* Sources: empty ones, ones that end before they start, overlapping and   *)
(* decreasing ones, with any anchor and any end_char. The loop is one      *)
(* sequential call: once entered it keeps running (weak fairness).         *)
(***************************************************************************)
MaxLoopPos == 2    \* SpecLoop: offsets of the Sources

\* the streams of at most n Sources with offsets in 0..MaxLoopPos
LoopStreams(n) ==
    UNION {[1..k -> {Source(b, e) : b \in 0..MaxLoopPos, e \in 0..MaxLoopPos}] :
              k \in 0..n}

InitLoop ==
    /\ pc = "start"
    /\ anchor \in 0..(MaxLoopPos + 1)
    /\ end_char \in 0..(MaxLoopPos + 1)
    /\ syntax_highlights \in LoopStreams(2)
    /\ overlay_highlights \in LoopStreams(1)
    /\ syntax_styles = NewStyleIter(DefaultStyle, <<>>)
    /\ overlay_styles = NewStyleIter(DefaultStyle, <<>>)
    /\ syntax_span = Span(DefaultStyle, 0, 0)
    /\ overlay_span = Span(DefaultStyle, 0, 0)
    /\ position = 0
    /\ runs = <<>>
    /\ log = <<>>
    /\ StyleIdle /\ PaintIdle /\ OverlayIdle /\ RegionIdle /\ AppIdle

SpecLoop == InitLoop /\ [][NextRuns]_vars /\ WF_vars(NextRuns)

(***************************************************************************)
(* SpecPaint: the visible range and the gutter lines of one                *)
(* DocumentElement::paint. The rope is a sequence of chars; "\n" ends a    *)
(* line, so a rope has one more line than it has line breaks.              *)
(***************************************************************************)
Chars == {"a", "\n"}

Ropes == UNION {[1..n -> Chars] : n \in 0..MaxChars}

\* The line breaks among the first k chars of rope t.
Newlines(t, k) == Cardinality({i \in 1..k : t[i] = "\n"})

len_chars(t) == Len(t)

len_lines(t) == Newlines(t, Len(t)) + 1

\* Rope::char_to_line, for c <= len_chars.
char_to_line(t, c) == Newlines(t, c)

\* Rope::line_to_char, for l <= len_lines: the char after the l-th line
\* break, the rope's length for l = len_lines.
line_to_char(t, l) ==
    IF l = 0 THEN 0
    ELSE IF l >= len_lines(t) THEN Len(t)
    ELSE CHOOSE c \in 1..Len(t) : t[c] = "\n" /\ Newlines(t, c) = l

\* Rope::slice(start..end) panics unless start <= end <= len_chars.
SlicePanics(t, start, end) == start > end \/ end > len_chars(t)

\* `text.char_to_line(anchor.min(text.len_chars()))`
FirstRow(t, anch) == char_to_line(t, Min(anch, len_chars(t)))

LastRowShort(t, first, rows) == Min(first + rows, len_lines(t))

\* `(first_row + after_layout.rows + 1).min(total_lines)`
LastRow(t, first, rows) == Min(first + rows + 1, len_lines(t))

\* `text.line_to_char(std::cmp::min(last_row, total_lines))`
EndChar(t, last) == line_to_char(t, Min(last, len_lines(t)))

LinePos(first_visual_line, doc_line, visual_line, start_char_idx) ==
    [first_visual_line |-> first_visual_line, doc_line |-> doc_line,
     visual_line |-> visual_line, start_char_idx |-> start_char_idx]

\* helix_view's Editor::resize(area): Tree::resize stores the area and tells
\* whether it differs from the stored one; when it does, Editor::_refresh
\* runs View::ensure_cursor_in_view, which keeps the anchor or moves it to
\* the start of a line of the text.
TreeResize(old_area, area) == area # old_area

Refresh(rope, anchor_char) ==
    {anchor_char} \cup {line_to_char(rope, l) : l \in 0..(len_lines(rope) - 1)}

InitPaint ==
    /\ ppc = "layout"
    /\ view_area \in (0..MaxColumns) \X (0..MaxRows)
    /\ text \in Ropes
    /\ view_anchor \in 0..(MaxChars + 1)
    /\ layout_rows \in 0..MaxRows
    /\ layout_columns \in 1..MaxColumns
    /\ soft_wrap \in BOOLEAN
    /\ first_row = 0
    /\ last_row = 0
    /\ text_view = <<0, 0>>
    /\ gutter_lines = <<>>
    /\ StyleIdle /\ RunIdle /\ RangeIdle /\ OverlayIdle /\ RegionIdle /\ AppIdle

\* paint, lines 610-618: anchor, first_row, last_row, end_char and the slice.
\* `panics` tells whether text.slice(anchor..end_char) panics.
PaintRange(panics) ==
    /\ ppc = "frame"
    /\ LET first == FirstRow(text, view_anchor)
           last  == LastRow(text, first, layout_rows)
           endc  == EndChar(text, last)
       IN /\ anchor' = view_anchor
          /\ first_row' = first
          /\ last_row' = last
          /\ end_char' = endc
          /\ panics = SlicePanics(text, view_anchor, endc)
          /\ IF panics
             THEN ppc' = "panicked" /\ UNCHANGED text_view
             ELSE ppc' = "ranged" /\ text_view' = <<view_anchor, endc>>
    /\ UNCHANGED <<text, view_anchor, layout_rows, layout_columns, soft_wrap,
                   gutter_lines, view_area, styleVars, runVars, overlayVars,
                   regionVars, appVars>>

\* prepaint, lines 503-552: rows and columns come from the element's bounds
\* and the editor is resized to them through core.update.
PaintPrepaint ==
    /\ ppc = "layout"
    /\ LET rect == <<layout_columns, layout_rows>>
       IN /\ view_area' = rect
          /\ IF TreeResize(view_area, rect)
             THEN view_anchor' \in Refresh(text, view_anchor)
             ELSE view_anchor' = view_anchor
    /\ ppc' = "frame"
    /\ UNCHANGED <<text, layout_rows, layout_columns, soft_wrap, first_row,
                   last_row, text_view, gutter_lines, rangeVars, styleVars,
                   runVars, overlayVars, regionVars, appVars>>

PaintVisibleRange ==
    /\ pc = "idle"
    /\ PaintRange(FALSE)

PaintSlicePanics ==
    /\ pc = "idle"
    /\ PaintRange(TRUE)

\* What paint leaves alone once the range is computed.
PaintInputs == <<text, view_anchor, layout_rows, layout_columns, soft_wrap,
                 first_row, last_row, text_view, view_area>>

\* paint, lines 633-648: shape_text returned Ok and the lines were painted.
PaintShape ==
    /\ ppc = "ranged"
    /\ ppc' = "shaped"
    /\ UNCHANGED <<PaintInputs, gutter_lines, rangeVars, styleVars, runVars,
                   overlayVars, regionVars, appVars>>

\* paint, lines 633-636: shape_text returned Err and `.unwrap()` panics.
PaintShapeFails ==
    /\ ppc = "ranged"
    /\ ppc' = "shape_text_panicked"
    /\ UNCHANGED <<PaintInputs, gutter_lines, rangeVars, styleVars, runVars,
                   overlayVars, regionVars, appVars>>

\* paint, lines 691-698: one LinePos per document line first_row..last_row.
GutterLines(first, last) ==
    [i \in 1..(last - first) |-> LinePos(TRUE, first + i - 1, i - 1, 0)]

\* paint, lines 691-724: every line went through the gutters and
\* Gutter::render shaped each gutter text.
PaintGutter ==
    /\ ppc = "shaped"
    /\ gutter_lines' = GutterLines(first_row, last_row)
    /\ ppc' = "painted"
    /\ UNCHANGED <<PaintInputs, rangeVars, styleVars, runVars, overlayVars, regionVars, appVars>>

\* Gutter::render, lines 822-825: shape_line returned Err for the gutter
\* text of the k-th line and `.unwrap()` panics.
PaintGutterShapeFails ==
    /\ ppc = "shaped"
    /\ \E k \in 1..(last_row - first_row) :
          gutter_lines' = SubSeq(GutterLines(first_row, last_row), 1, k)
    /\ ppc' = "shape_line_panicked"
    /\ UNCHANGED <<PaintInputs, rangeVars, styleVars, runVars, overlayVars, regionVars, appVars>>

NextPaint ==
    \/ PaintPrepaint
    \/ PaintVisibleRange
    \/ PaintSlicePanics
    \/ PaintShape
    \/ PaintShapeFails
    \/ PaintGutter
    \/ PaintGutterShapeFails

SpecPaint == InitPaint /\ [][NextPaint]_vars

(***************************************************************************)
(* helix_core::syntax::merge: a highlight-event stream and a list of       *)
(* (scope, range) spans, sorted and non-overlapping, merged into one       *)
(* stream. Every Source of the stream is cut at the span boundaries and    *)
(* the part a span covers is wrapped in HighlightStart(scope) ..           *)
(* HighlightEnd, inside the highlights already open around it.             *)
(***************************************************************************)
OSpan(scope, s, e) == [scope |-> scope, start |-> s, end |-> e]

\* Option::None of a span; the scopes of real spans are positive.
NoSpan == [scope |-> 0, start |-> 0, end |-> 0]

\* Iterator::next of a sequence: the item, and what is left.
IterNext(q) == IF q = <<>> THEN NoEvent ELSE Head(q)
SpanNext(q) == IF q = <<>> THEN NoSpan ELSE Head(q)
IterRest(q) == IF q = <<>> THEN q ELSE Tail(q)

NewMerge(events, spans) ==
    [iter |-> IterRest(events), spans |-> IterRest(spans),
     next_event |-> IterNext(events), next_span |-> SpanNext(spans),
     queue |-> <<>>]

AdvanceEvent(m) == [m EXCEPT !.next_event = IterNext(m.iter), !.iter = IterRest(@)]
AdvanceSpan(m)  == [m EXCEPT !.next_span = SpanNext(m.spans), !.spans = IterRest(@)]

\* A span that starts before the next Source is cut to start with it, and
\* dropped when it ends before it (a range partly or wholly off screen).
RECURSIVE SkipOffscreen(_)
SkipOffscreen(m) ==
    IF /\ m.next_event.type = "Source"
       /\ m.next_span # NoSpan
       /\ m.next_event.start > m.next_span.start
    THEN IF m.next_event.start > m.next_span.end
         THEN SkipOffscreen(AdvanceSpan(m))
         ELSE SkipOffscreen([m EXCEPT !.next_span.start = m.next_event.start])
    ELSE m

\* Merge::next: the event returned (NoEvent for None) and the iterator after it.
MergeNext(m0) ==
    IF m0.queue # <<>>
    THEN [event |-> m0.queue[Len(m0.queue)], merge |-> [m0 EXCEPT !.queue = Pop(@)]]
    ELSE LET m  == SkipOffscreen(m0)
             ev == m.next_event
             sp == m.next_span
             Cut(at) == IF ev.end = at THEN AdvanceEvent(m)
                        ELSE [m EXCEPT !.next_event = Source(at, ev.end)]
         IN CASE ev.type \in {"HighlightStart", "HighlightEnd"} ->
                   [event |-> ev, merge |-> AdvanceEvent(m)]
              [] ev.type = "Source" /\ sp # NoSpan /\ ev.start < sp.start ->
                   LET intersect == Min(sp.start, ev.end)
                   IN [event |-> Source(ev.start, intersect), merge |-> Cut(intersect)]
              [] ev.type = "Source" /\ sp # NoSpan /\ ev.start = sp.start ->
                   LET intersect == Min(sp.end, ev.end)
                       m1 == Cut(intersect)
                       m2 == IF intersect = sp.end THEN AdvanceSpan(m1)
                             ELSE [m1 EXCEPT !.next_span = OSpan(sp.scope, intersect, sp.end)]
                   IN [event |-> HighlightStart(sp.scope),
                       merge |-> [m2 EXCEPT !.queue =
                                      <<HighlightEnd, Source(ev.start, intersect)>>]]
              [] ev.type = "Source" /\ sp = NoSpan ->
                   [event |-> ev, merge |-> AdvanceEvent(m)]
              [] ev = NoEvent /\ sp # NoSpan ->
                   [event |-> HighlightStart(sp.scope),
                    merge |-> [AdvanceSpan(m) EXCEPT !.queue =
                                   <<HighlightEnd, Source(sp.start, sp.end)>>]]
              [] ev = NoEvent /\ sp = NoSpan ->
                   [event |-> NoEvent, merge |-> m]

RECURSIVE MergeCollect(_)
MergeCollect(m) ==
    LET r == MergeNext(m)
    IN IF r.event = NoEvent THEN <<>> ELSE <<r.event>> \o MergeCollect(r.merge)

\* merge(iter, spans), collected.
Merge(events, spans) == MergeCollect(NewMerge(events, spans))

(***************************************************************************)
(* SpecOverlay: DocumentElement::overlay_highlights. The inputs are the    *)
(* focus flag, the selection ranges of the view, the spans of the focused  *)
(* view's elements and the diagnostic buckets, each of these two of at     *)
(* most one span; the viewport reaches the end of the document.            *)
(***************************************************************************)
MaxOPos        == 2     \* char offsets are in 0..MaxOPos
MaxSelections  == 2     \* selection ranges of the view

\* The theme's highlight of the selection, of the focused view's elements
\* and of each diagnostic bucket, in the order the buckets are produced.
SelectionScope   == 1
FocusedScope     == 2
DiagnosticScopes == <<3, 4>>

LastSpanEnd(l) == IF l = <<>> THEN 0 ELSE l[Len(l)].end

\* The lists of at most n spans of one scope: non-empty, sorted, non-overlapping.
RECURSIVE SpanLists(_, _)
SpanLists(scope, n) ==
    IF n = 0 THEN {<<>>}
    ELSE LET shorter == SpanLists(scope, n - 1)
         IN shorter \cup
            {Append(q[1], OSpan(scope, q[2], q[3])) :
                q \in {r \in shorter \X (0..MaxOPos) \X (0..MaxOPos) :
                          LastSpanEnd(r[1]) <= r[2] /\ r[2] < r[3]}}

\* helix_core::selection::Range: anchor and head, in either order.
Range(a, h) == [anchor |-> a, head |-> h]
From(range) == Min(range.anchor, range.head)
To(range)   == IF range.anchor >= range.head THEN range.anchor ELSE range.head

\* The selections of a view: sorted, non-overlapping ranges, each forward or backward.
Selections ==
    UNION {{[i \in 1..Len(l) |-> IF f[i] THEN Range(l[i].start, l[i].end)
                                         ELSE Range(l[i].end, l[i].start)] :
               f \in [1..Len(l) -> BOOLEAN]} :
           l \in SpanLists(SelectionScope, MaxSelections)}

\* EditorView::doc_selection_highlights: one span per selection range,
\* covering the range's extent.
doc_selection_highlights(sel) ==
    [i \in 1..Len(sel) |-> OSpan(SelectionScope, From(sel[i]), To(sel[i]))]

\* EditorView::empty_highlight_iter: one Source over the visible chars.
empty_highlight_iter(range) == <<Source(range[1], range[2])>>

SelectionGateAlways(focused) == TRUE

\* `if is_view_focused {`
SelectionGate(focused) == focused

FocusedOverlayElementsFirst(base, spans, elements) ==
    IF elements = <<>> THEN Merge(base, spans)
    ELSE Merge(Merge(base, elements), spans)

\* The body of `if is_view_focused`: the selection merged onto the base,
\* then the focused view's elements unless there are none.
FocusedOverlay(base, spans, elements) ==
    LET highlights == Merge(base, spans)
    IN IF elements = <<>> THEN highlights ELSE Merge(highlights, elements)

SkipBucketShort(diagnostic) == Len(diagnostic) <= 1

\* `if diagnostic.is_empty() { continue; }`
SkipBucket(diagnostic) == diagnostic = <<>>

MergeBucketOntoBase(overlay, diagnostic) ==
    Merge(empty_highlight_iter(view_chars), diagnostic)

\* `overlay_highlights = Box::new(merge(overlay_highlights, diagnostic))`
MergeBucket(overlay, diagnostic) == Merge(overlay, diagnostic)

\* What `merges` records of one merge: the spans and the stream they went onto.
Merged(spans, onto) == [spans |-> spans, onto |-> onto]

InitOverlay ==
    /\ opc = "start"
    /\ is_view_focused \in BOOLEAN
    /\ selection \in Selections
    /\ focused_view_elements \in SpanLists(FocusedScope, 1)
    /\ diagnostics \in
          {d \in [1..Len(DiagnosticScopes) ->
                     UNION {SpanLists(DiagnosticScopes[i], 1) :
                               i \in 1..Len(DiagnosticScopes)}] :
              \A i \in 1..Len(DiagnosticScopes) :
                  d[i] \in SpanLists(DiagnosticScopes[i], 1)}
    /\ view_chars \in {<<s, MaxOPos>> : s \in {0, 1}}
    /\ overlay_iter = <<>>
    /\ bucket = 0
    /\ merges = <<>>
    /\ StyleIdle /\ RunIdle /\ RangeIdle /\ PaintIdle /\ RegionIdle /\ AppIdle

\* Lines 302-303: the base of the overlay.
OverlayEmpty ==
    /\ opc = "start"
    /\ overlay_iter' = empty_highlight_iter(view_chars)
    /\ opc' = "gate"
    /\ UNCHANGED <<is_view_focused, selection, focused_view_elements, diagnostics,
                   view_chars, bucket, merges,
                   styleVars, runVars, rangeVars, paintVars, regionVars, appVars>>

\* Lines 304-324 for a focused view; `elements` tells whether the focused
\* view has elements to merge.
OverlayFocused(elements) ==
    /\ opc = "gate"
    /\ SelectionGate(is_view_focused)
    /\ elements = (focused_view_elements # <<>>)
    /\ LET spans == doc_selection_highlights(selection)
       IN /\ overlay_iter' = FocusedOverlay(overlay_iter, spans, focused_view_elements)
          /\ merges' = IF elements
                       THEN merges \o <<Merged(spans, overlay_iter),
                                        Merged(focused_view_elements,
                                               Merge(overlay_iter, spans))>>
                       ELSE Append(merges, Merged(spans, overlay_iter))
    /\ opc' = "diagnostics"
    /\ bucket' = 1
    /\ UNCHANGED <<is_view_focused, selection, focused_view_elements, diagnostics,
                   view_chars,
                   styleVars, runVars, rangeVars, paintVars, regionVars, appVars>>

OverlayFocusedSelection ==
    /\ hpc = "idle"
    /\ OverlayFocused(FALSE)

OverlayFocusedElements ==
    /\ hpc = "idle"
    /\ OverlayFocused(TRUE)

\* Line 304 for a view that is not focused: the block is skipped.
OverlayUnfocused ==
    /\ opc = "gate"
    /\ ~SelectionGate(is_view_focused)
    /\ opc' = "diagnostics"
    /\ bucket' = 1
    /\ UNCHANGED <<is_view_focused, selection, focused_view_elements, diagnostics,
                   view_chars, overlay_iter, merges,
                   styleVars, runVars, rangeVars, paintVars, regionVars, appVars>>

\* Lines 326-331: an empty bucket is skipped.
OverlayDiagnosticSkip ==
    /\ opc = "diagnostics"
    /\ bucket <= Len(diagnostics)
    /\ SkipBucket(diagnostics[bucket])
    /\ bucket' = bucket + 1
    /\ UNCHANGED <<opc, is_view_focused, selection, focused_view_elements, diagnostics,
                   view_chars, overlay_iter, merges,
                   styleVars, runVars, rangeVars, paintVars, regionVars, appVars>>

\* Lines 326-334: a bucket is merged onto the overlay built so far.
OverlayDiagnosticMerge ==
    /\ opc = "diagnostics"
    /\ bucket <= Len(diagnostics)
    /\ ~SkipBucket(diagnostics[bucket])
    /\ overlay_iter' = MergeBucket(overlay_iter, diagnostics[bucket])
    /\ merges' = Append(merges, Merged(diagnostics[bucket], overlay_iter))
    /\ bucket' = bucket + 1
    /\ UNCHANGED <<opc, is_view_focused, selection, focused_view_elements, diagnostics,
                   view_chars,
                   styleVars, runVars, rangeVars, paintVars, regionVars, appVars>>

\* Line 336: the buckets are exhausted, the overlay is returned.
OverlayReturn ==
    /\ opc = "diagnostics"
    /\ bucket > Len(diagnostics)
    /\ opc' = "done"
    /\ UNCHANGED <<is_view_focused, selection, focused_view_elements, diagnostics,
                   view_chars, overlay_iter, bucket, merges,
                   styleVars, runVars, rangeVars, paintVars, regionVars, appVars>>

NextOverlay ==
    \/ OverlayEmpty
    \/ OverlayFocusedSelection
    \/ OverlayFocusedElements
    \/ OverlayUnfocused
    \/ OverlayDiagnosticSkip
    \/ OverlayDiagnosticMerge
    \/ OverlayReturn

SpecOverlay == InitOverlay /\ [][NextOverlay]_vars

(***************************************************************************)
(* SpecScenario: the run builder over buffers "fn <name>() {}\n" shown     *)
(* whole, <name> of 1..MaxName chars ("main" has 4). The syntax stream     *)
(* tags `fn` and the name and, as the syntax engine does, carries a Source *)
(* for the text in between and after; there is no selection and there are  *)
(* no diagnostics, so the overlay is the base Source alone.                *)
(***************************************************************************)
MaxName == 4     \* chars of <name>

\* The chars of "fn <name>() {}\n" for a name of n chars.
ScenarioLen(n) == Len(<<"f", "n", " ">>) + n + Len(<<"(", ")", " ", "{", "}", "\n">>)

NameStart == Len(<<"f", "n", " ">>)

ScenarioSyntax(tag1, tag2, n) ==
    <<HighlightStart(tag1), Source(0, NameStart - 1), HighlightEnd,
      Source(NameStart - 1, NameStart),
      HighlightStart(tag2), Source(NameStart, NameStart + n), HighlightEnd,
      Source(NameStart + n, ScenarioLen(n))>>

\* overlay_highlights for a view with no selection and no diagnostics:
\* nothing is merged onto the base.
ScenarioOverlay(n) == empty_highlight_iter(<<0, ScenarioLen(n)>>)

InitScenario ==
    /\ pc = "start"
    /\ \E n \in 1..MaxName, tag1 \in Tags, tag2 \in Tags :
          /\ tag1 # tag2
          /\ anchor = 0
          /\ end_char = ScenarioLen(n)
          /\ syntax_highlights = ScenarioSyntax(tag1, tag2, n)
          /\ overlay_highlights = ScenarioOverlay(n)
    /\ syntax_styles = NewStyleIter(DefaultStyle, <<>>)
    /\ overlay_styles = NewStyleIter(DefaultStyle, <<>>)
    /\ syntax_span = Span(DefaultStyle, 0, 0)
    /\ overlay_span = Span(DefaultStyle, 0, 0)
    /\ position = 0
    /\ runs = <<>>
    /\ log = <<>>
    /\ StyleIdle /\ PaintIdle /\ OverlayIdle /\ RegionIdle /\ AppIdle

SpecScenario == InitScenario /\ [][NextRuns]_vars

(***************************************************************************)
(* SpecHighlights: DocumentView::highlights (workspace.rs). The rope is a  *)
(* sequence of chars, each with its UTF-8 width and whether it extends the *)
(* grapheme cluster of the char before it (a combining mark). The events   *)
(* of the syntax engine are Results and their Source offsets are bytes.    *)
(***************************************************************************)
MaxGChars  == 2     \* chars in the rope
MaxResults == 2     \* items of syn.highlight_iter(..)

GChar(bytes, extend) == [bytes |-> bytes, extend |-> extend]

\* "a", "é" and a combining acute accent.
GChars == {GChar(1, FALSE), GChar(2, FALSE), GChar(2, TRUE)}

GRopes == UNION {[1..n -> GChars] : n \in 0..MaxGChars}

\* Rope::char_to_byte: the byte offset where char c (0-based) starts.
RECURSIVE char_to_byte(_, _)
char_to_byte(t, c) == IF c = 0 THEN 0 ELSE char_to_byte(t, c - 1) + t[c].bytes

len_bytes(t) == char_to_byte(t, Len(t))

\* Rope::byte_to_char: the index of the char byte b lies in, len_chars for
\* b = len_bytes.
byte_to_char(t, b) == Cardinality({c \in 1..Len(t) : char_to_byte(t, c) <= b})

\* The byte offsets between two grapheme clusters, the rope's ends included.
GraphemeBoundaries(t) ==
    {0, len_bytes(t)} \cup
        {char_to_byte(t, c - 1) : c \in {d \in 1..Len(t) : ~t[d].extend}}

\* helix_core::graphemes::ensure_grapheme_boundary_next_byte: b when it is
\* a grapheme boundary, else the next boundary after it.
ensure_grapheme_boundary_next_byte(t, b) ==
    IF b = 0 THEN b
    ELSE IF b \in GraphemeBoundaries(t) THEN b
    ELSE CHOOSE r \in GraphemeBoundaries(t) :
            /\ r > b
            /\ \A q \in GraphemeBoundaries(t) : q > b => r <= q

SourceToCharUnrounded(t, b) == byte_to_char(t, b)

\* `text.byte_to_char(ensure_grapheme_boundary_next_byte(text, start))`
SourceToChar(t, b) == byte_to_char(t, ensure_grapheme_boundary_next_byte(t, b))

\* Result<HighlightEvent, Error>
Ok(event) == [ok |-> TRUE, event |-> event]
Err       == [ok |-> FALSE, event |-> NoEvent]

\* What highlight_iter may yield over rope t; a Source has start <= end.
SyntaxResults(t) ==
    {Ok(HighlightStart(1)), Ok(HighlightEnd), Err}
        \cup {Ok(Source(q[1], q[2])) :
                 q \in {r \in (0..len_bytes(t)) \X (0..len_bytes(t)) : r[1] <= r[2]}}

HighlightRegion(start, end, hl) == [start |-> start, end |-> end, hl |-> hl]

InitHighlights ==
    /\ hl_text \in GRopes
    /\ \/ /\ hpc = "iter"
          /\ hl_events \in UNION {[1..n -> SyntaxResults(hl_text)] : n \in 0..MaxResults}
       \/ /\ hpc = "nosyntax"
          /\ hl_events = <<>>
    /\ current_region = HighlightRegion(0, 0, 0)
    /\ regions = <<>>
    /\ converted = <<>>
    /\ StyleIdle /\ RunIdle /\ RangeIdle /\ PaintIdle /\ OverlayIdle /\ AppIdle

Others == <<styleVars, runVars, rangeVars, paintVars, overlayVars, appVars>>

\* `.map(|event| event.unwrap())` on an Err: the unwrap panics.
HighlightsUnwrapPanics ==
    /\ hpc = "iter"
    /\ hl_events # <<>>
    /\ ~Head(hl_events).ok
    /\ hpc' = "panicked"
    /\ UNCHANGED <<hl_text, hl_events, current_region, regions, converted, Others>>

\* One event of `for event in iter` that unwrapped to `type`.
HighlightsEvent(type) ==
    /\ hpc = "iter"
    /\ hl_events # <<>>
    /\ Head(hl_events).ok
    /\ Head(hl_events).event.type = type
    /\ hl_events' = Tail(hl_events)

HighlightsStart ==
    /\ HighlightsEvent("HighlightStart")
    /\ current_region' = [current_region EXCEPT !.hl = Head(hl_events).event.highlight]
    /\ UNCHANGED <<hpc, hl_text, regions, converted, Others>>

\* The Source's byte offsets are converted to char offsets by the map
\* closure, then stored in current_region.
HighlightsSource ==
    /\ HighlightsEvent("Source")
    /\ LET ev    == Head(hl_events).event
           start == SourceToChar(hl_text, ev.start)
           end   == SourceToChar(hl_text, ev.end)
       IN /\ current_region' = [current_region EXCEPT !.start = start, !.end = end]
          /\ converted' = converted \o
                <<[byte |-> ev.start, char |-> start], [byte |-> ev.end, char |-> end]>>
    /\ UNCHANGED <<hpc, hl_text, regions, Others>>

HighlightsEnd ==
    /\ HighlightsEvent("HighlightEnd")
    /\ regions' = Append(regions, current_region)
    /\ UNCHANGED <<hpc, hl_text, current_region, converted, Others>>

\* The iterator is exhausted: Highlights(regions).
HighlightsReturn ==
    /\ hpc = "iter"
    /\ hl_events = <<>>
    /\ hpc' = "done"
    /\ UNCHANGED <<hl_text, hl_events, current_region, regions, converted, Others>>

\* `None => Highlights(vec![])`: the document has no syntax.
HighlightsNoSyntax ==
    /\ hpc = "nosyntax"
    /\ hpc' = "done"
    /\ regions' = <<>>
    /\ UNCHANGED <<hl_text, hl_events, current_region, converted, Others>>

NextHighlights ==
    \/ HighlightsUnwrapPanics
    \/ HighlightsStart
    \/ HighlightsSource
    \/ HighlightsEnd
    \/ HighlightsReturn
    \/ HighlightsNoSyntax

SpecHighlights == InitHighlights /\ [][NextHighlights]_vars

(***************************************************************************)
(* SpecDiagnostics: Application::handle_language_server_message            *)
(* (src/src/application.rs) handling PublishDiagnostics and Exit           *)
(* notifications of two language servers for two paths, one of which is    *)
(* open in a document. editor.diagnostics maps a path to Vacant or to      *)
(* Occupied(list); an Option<i32> version is <<>> or <<v>>.                *)
(***************************************************************************)
MaxVersion == 2    \* versions a notification carries; the document's is 1

Servers == {1, 2}
Paths == {1, 2}
Versions == {<<>>} \cup {<<v>> : v \in 1..MaxVersion}
Severities == {1, 2}
RangeStarts == {0, 1}

LspDiagnostic(severity, start) == [severity |-> severity, start |-> start]

LspDiagnostics == {LspDiagnostic(v, c) : v \in Severities, c \in RangeStarts}

\* params.diagnostics of one notification
DiagnosticLists == {<<>>} \cup {<<d>> : d \in LspDiagnostics}

Vacant == <<>>

Occupied(list) == <<list>>

\* tuples of three integers in lexicographic order, as Rust orders tuples
KeyLess(a, b) ==
    \/ a[1] < b[1]
    \/ a[1] = b[1] /\ a[2] < b[2]
    \/ a[1] = b[1] /\ a[2] = b[2] /\ a[3] < b[3]

\* slice::sort_unstable_by_key, given the key of each element
SortByKey(list, keys) ==
    LET n == Len(list)
        rank(i) == 1 + Cardinality({j \in 1..n :
                        \/ KeyLess(keys[j], keys[i])
                        \/ keys[j] = keys[i] /\ j < i})
    IN [k \in 1..n |-> list[CHOOSE i \in 1..n : rank(i) = k]]

\* lines 412-414: the key of the store's sort
StoreKey(e) == <<e.diagnostic.severity, e.diagnostic.start, e.server>>

SortStoreUnsorted(list) == list

\* lines 412-414: diagnostics.sort_unstable_by_key(..)
SortStore(list) == SortByKey(list, [i \in 1..Len(list) |-> StoreKey(list[i])])

\* line 393: params.diagnostics.into_iter().map(|d| (d, server_id))
Attributed(params_diagnostics, server_id) ==
    [i \in 1..Len(params_diagnostics) |-> [diagnostic |-> params_diagnostics[i], server |-> server_id]]

\* Vec::retain(|(_, lsp_id)| *lsp_id != server_id)
RetainOthers(list, server_id) == SelectSeq(list, LAMBDA e : e.server # server_id)

EntryOverwrite(old, new, server_id) == new

\* lines 398-408: the entry of the path, with this server's part replaced
Entry(old, new, server_id) ==
    IF old # Vacant THEN RetainOthers(old[1], server_id) \o new ELSE new

\* lines 348-358: the open document of the path, unless the notification
\* carries a version that is not the document's
FindDocument(docs, path, version) ==
    LET found == {i \in DOMAIN docs : docs[i].path = path}
    IN IF found = {} THEN <<>>
       ELSE LET i == CHOOSE i \in found : \A j \in found : i <= j
            IN IF version # <<>> /\ version[1] # docs[i].version THEN <<>> ELSE <<i>>

\* helix_view's Document::replace_diagnostics with no unchanged source: the
\* server's diagnostics are replaced and the list is sorted by range,
\* severity and provider.
DocKey(e) == <<e.diagnostic.start, e.diagnostic.severity, e.server>>

ReplaceDiagnostics(old, new, server_id) ==
    LET list == RetainOthers(old, server_id) \o new
    IN SortByKey(list, [i \in 1..Len(list) |-> DocKey(list[i])])

\* helix_view's Editor::doc_diagnostics_with_filter: the stored diagnostics of
\* the document's path that come from a language server of the document's
\* language and that the filter (lines 417-423) lets through
DocDiagnosticsWithFilter(stored, doc, server_id) ==
    SelectSeq(stored, LAMBDA e : e.server \in doc.language_servers /\ e.server = server_id)

\* `others` counts the other servers' entries the path had (Exit: the entries
\* removed), `emptied` the paths an Exit removed from the map.
Handled(kind, server_id, path, version, params_diagnostics, outcome, others, emptied) ==
    [kind |-> kind, server |-> server_id, path |-> path, version |-> version,
     diagnostics |-> params_diagnostics, outcome |-> outcome, others |-> others,
     emptied |-> emptied]

InitDiagnostics ==
    /\ editor_diagnostics = [p \in Paths |-> Vacant]
    /\ language_servers \in {[id \in Servers |-> IF id = 1 THEN "initialized" ELSE st] :
                                st \in {"initialized", "uninitialized"}}
    /\ documents = <<[path |-> 1, version |-> 1, language_servers |-> {1},
                      diagnostics |-> <<>>]>>
    /\ notification = Handled("idle", 0, 0, <<>>, <<>>, "idle", 0, 0)
    /\ published = [p \in Paths |-> [id \in Servers |-> <<>>]]
    /\ StyleIdle /\ RunIdle /\ RangeIdle /\ PaintIdle /\ OverlayIdle /\ RegionIdle
    /\ CallIdle /\ InputIdle /\ CellIdle /\ KeyIdle

DiagOthers == <<styleVars, runVars, rangeVars, paintVars, overlayVars, regionVars,
                callVars, inputVars, cellVars, keyVars>>

\* lines 335-341: the uri is no file path
PublishUnsupportedUri ==
    /\ \E server_id \in Servers :
          notification' = Handled("PublishDiagnostics", server_id, 0, <<>>, <<>>,
                                  "unsupported_uri", 0, 0)
    /\ UNCHANGED <<editor_diagnostics, language_servers, documents, published, DiagOthers>>

\* lines 342, 271-281: language_server!() finds no server of that id
PublishNoServer ==
    /\ \E server_id \in Servers :
          /\ language_servers[server_id] = "absent"
          /\ notification' = Handled("PublishDiagnostics", server_id, 0, <<>>, <<>>,
                                     "no_server", 0, 0)
    /\ UNCHANGED <<editor_diagnostics, language_servers, documents, published, DiagOthers>>

\* lines 343-346: the server is not initialized
PublishUninitialized ==
    /\ \E server_id \in Servers :
          /\ language_servers[server_id] = "uninitialized"
          /\ notification' = Handled("PublishDiagnostics", server_id, 0, <<>>, <<>>,
                                     "uninitialized", 0, 0)
    /\ UNCHANGED <<editor_diagnostics, language_servers, documents, published, DiagOthers>>

\* lines 334-435: the notification gets past the early returns
PublishDiagnostics ==
    /\ \E server_id \in Servers, path \in Paths, version \in Versions,
          params_diagnostics \in DiagnosticLists :
          /\ language_servers[server_id] = "initialized"
          \* params.version is read only by the filter on the path's document
          /\ version # <<>> => \E i \in DOMAIN documents : documents[i].path = path
          /\ LET doc == FindDocument(documents, path, version)
                 old == editor_diagnostics[path]
                 new == Attributed(params_diagnostics, server_id)
                 stored == SortStore(Entry(old, new, server_id))
                 others == IF old = Vacant THEN 0
                           ELSE Len(RetainOthers(old[1], server_id))
             IN /\ editor_diagnostics' =
                       [editor_diagnostics EXCEPT ![path] = Occupied(stored)]
                /\ documents' =
                       IF doc = <<>> THEN documents
                       ELSE [documents EXCEPT ![doc[1]].diagnostics =
                                ReplaceDiagnostics(@,
                                    DocDiagnosticsWithFilter(stored, documents[doc[1]],
                                                             server_id),
                                    server_id)]
                /\ notification' = Handled("PublishDiagnostics", server_id, path,
                                           version, params_diagnostics, "stored", others, 0)
                /\ published' = [published EXCEPT ![path][server_id] = params_diagnostics]
    /\ UNCHANGED <<language_servers, DiagOthers>>

ExitKeepEmpty(kept) == Occupied(kept)

\* line 539: self.editor.diagnostics.retain(|_, diags| !diags.is_empty())
ExitRetain(kept) == IF kept = <<>> THEN Vacant ELSE Occupied(kept)

\* lines 529-548: Notification::Exit
Exit ==
    /\ \E server_id \in Servers :
          /\ editor_diagnostics' =
                [p \in Paths |->
                    IF editor_diagnostics[p] = Vacant THEN Vacant
                    ELSE ExitRetain(RetainOthers(editor_diagnostics[p][1], server_id))]
          /\ documents' =
                [i \in DOMAIN documents |->
                    [documents[i] EXCEPT !.diagnostics = RetainOthers(@, server_id)]]
          /\ language_servers' = [language_servers EXCEPT ![server_id] = "absent"]
          /\ LET removed(p) == IF editor_diagnostics[p] = Vacant THEN 0
                               ELSE Len(editor_diagnostics[p][1])
                                    - Len(RetainOthers(editor_diagnostics[p][1], server_id))
                 emptied == {p \in Paths : /\ editor_diagnostics[p] # Vacant
                                            /\ editor_diagnostics'[p] = Vacant}
             IN notification' = Handled("Exit", server_id, 0, <<>>, <<>>, "exit",
                                        removed(1) + removed(2), Cardinality(emptied))
          /\ published' = [p \in Paths |-> [published[p] EXCEPT ![server_id] = <<>>]]
    /\ UNCHANGED DiagOthers

NextDiagnostics ==
    \/ PublishUnsupportedUri
    \/ PublishNoServer
    \/ PublishUninitialized
    \/ PublishDiagnostics
    \/ Exit

SpecDiagnostics == InitDiagnostics /\ [][NextDiagnostics]_vars

(***************************************************************************)
(* SpecMethodCalls: Application::step, driven by handle_crank_event, taking *)
(* language-server calls from editor.wait_event() and handing each to      *)
(* handle_language_server_message (src/src/application.rs). The handler    *)
(* runs on `&mut self`: no other event is handled while it runs.           *)
(***************************************************************************)
MaxCalls == 2    \* calls the servers send in one run

\* what MethodCall::parse makes of the method: the seven methods, a method
\* helix does not handle ("unknown") and one whose params do not parse
Methods == {"unknown", "malformed", "WorkDoneProgressCreate", "ApplyWorkspaceEdit",
            "WorkspaceFolders", "WorkspaceConfiguration", "RegisterCapability",
            "UnregisterCapability", "ShowDocument"}

\* helix_lsp::Call: a MethodCall with its method, Invalid { id }, or the
\* Exit notification
Calls == {<<"MethodCall", m>> : m \in Methods} \cup {<<"Invalid", "">>, <<"Exit", "">>}

\* lines 270-281: language_server!() finds the server
LanguageServer(server_id) == language_servers[server_id] # "absent"

\* helix_lsp's Client::workspace_folders() takes a parking_lot lock inside an
\* async fn: the future is ready at its first poll.
WorkspaceFoldersReady == TRUE

RepliesNothing(method, server) == "return"

\* lines 554-703: `let reply = match MethodCall::parse(&method, params)`;
\* "return" where language_server!() returns from the handler
ReplyOf(method, server) ==
    CASE method = "unknown" -> "Err(MethodNotFound)"
      [] method = "malformed" -> "Err(ParseError)"
      [] method = "ApplyWorkspaceEdit" ->
            IF server = "absent" THEN "return"
            ELSE IF server = "initialized" THEN "Ok" ELSE "Err(InvalidRequest)"
      [] method \in {"WorkspaceFolders", "WorkspaceConfiguration"} ->
            IF server = "absent" THEN "return" ELSE "Ok"
      [] OTHER -> "Ok"

InitMethodCalls ==
    /\ mpc = "idle"
    /\ incoming = <<>>
    /\ next_id = 1
    /\ dequeued = <<>>
    /\ reply = <<>>
    /\ replies = <<>>
    /\ language_servers \in {[id \in Servers |-> IF id = 1 THEN "initialized" ELSE st] :
                                st \in {"initialized", "uninitialized", "absent"}}
    /\ editor_diagnostics = <<>>
    /\ documents = <<>>
    /\ notification = [kind |-> "idle"]
    /\ published = <<>>
    /\ StyleIdle /\ RunIdle /\ RangeIdle /\ PaintIdle /\ OverlayIdle /\ RegionIdle
    /\ InputIdle /\ CellIdle /\ KeyIdle

CallOthers == <<styleVars, runVars, rangeVars, paintVars, overlayVars, regionVars,
                editor_diagnostics, documents, notification, published, inputVars,
                cellVars, keyVars>>

\* a language server sends a call: editor.wait_event() will yield it
ReceiveCall ==
    /\ mpc = "idle"
    /\ next_id <= MaxCalls
    /\ \E server_id \in Servers, call \in Calls :
          incoming' = Append(incoming, [id |-> next_id, server |-> server_id,
                                        call |-> call[1], method |-> call[2]])
    /\ next_id' = next_id + 1
    /\ UNCHANGED <<mpc, dequeued, reply, replies, language_servers, CallOthers>>

Dequeue(call) ==
    /\ mpc = "idle"
    /\ incoming # <<>>
    /\ Head(incoming).call = call
    /\ incoming' = Tail(incoming)
    /\ dequeued' = Append(dequeued,
                          [id |-> Head(incoming).id, server |-> Head(incoming).server,
                           call |-> call, method |-> Head(incoming).method,
                           registered |-> LanguageServer(Head(incoming).server)])

\* lines 231, 250-252, 551-703: the call is a MethodCall and `reply` is built
StepMethodCall ==
    /\ Dequeue("MethodCall")
    /\ LET c == Head(incoming)
           r == ReplyOf(c.method, language_servers[c.server])
       IN /\ r # "return"
          /\ c.method = "WorkspaceFolders" => WorkspaceFoldersReady
          /\ reply' = <<[id |-> c.id, server |-> c.server, reply |-> r]>>
          /\ mpc' = "reply"
    /\ UNCHANGED <<next_id, replies, language_servers, CallOthers>>

\* lines 594, 619, 622: language_server!() returns from the handler
StepMethodCallNoServer ==
    /\ Dequeue("MethodCall")
    /\ LET c == Head(incoming)
       IN ReplyOf(c.method, language_servers[c.server]) = "return"
    /\ UNCHANGED <<mpc, next_id, reply, replies, language_servers, CallOthers>>

\* line 705: tokio::spawn(language_server!().reply(id, reply))
StepReply ==
    /\ mpc = "reply"
    /\ IF LanguageServer(reply[1].server)
       THEN replies' = Append(replies, reply[1])
       ELSE replies' = replies
    /\ reply' = <<>>
    /\ mpc' = "idle"
    /\ UNCHANGED <<incoming, next_id, dequeued, language_servers, CallOthers>>

\* line 707: Call::Invalid { id } is logged
StepInvalid ==
    /\ Dequeue("Invalid")
    /\ UNCHANGED <<mpc, next_id, reply, replies, language_servers, CallOthers>>

\* lines 529-548: Notification::Exit, here with no diagnostics stored and no
\* document open: the server leaves the registry
StepExit ==
    /\ Dequeue("Exit")
    /\ language_servers' = [language_servers EXCEPT ![Head(incoming).server] = "absent"]
    /\ UNCHANGED <<mpc, next_id, reply, replies, CallOthers>>

NextMethodCalls ==
    \/ ReceiveCall
    \/ StepMethodCall
    \/ StepMethodCallNoServer
    \/ StepReply
    \/ StepInvalid
    \/ StepExit

SpecMethodCalls == InitMethodCalls /\ [][NextMethodCalls]_vars

(***************************************************************************)
(* SpecInput: Application::handle_input_event and emit_overlays            *)
(* (src/src/application.rs). What the compositor and the editor view do    *)
(* with a key (helix_term) is an input: whether each consumes it, which    *)
(* overlays the compositor holds afterwards and whether editor.autoinfo is *)
(* set afterwards.                                                         *)
(***************************************************************************)
MaxInputs == 2    \* input events handled in one run

Compositors == [picker : BOOLEAN, prompt : BOOLEAN]

EmitOverlaysInfoFirst(layers, info) ==
    (IF info # <<>> THEN <<"Info">> ELSE <<>>)
    \o (IF layers.picker THEN <<"Picker">> ELSE <<>>)
    \o (IF layers.prompt THEN <<"Prompt">> ELSE <<>>)

\* emit_overlays, lines 52-84: what it emits, given the compositor's
\* overlays and editor.autoinfo
EmitOverlays(layers, info) ==
    (IF layers.picker THEN <<"Picker">> ELSE <<>>)
    \o (IF layers.prompt THEN <<"Prompt">> ELSE <<>>)
    \o (IF info # <<>> THEN <<"Info">> ELSE <<>>)

\* lines 101-113: who gets the key, given what the compositor and the view
\* return
Offered(is_handled, res) ==
    <<"compositor">>
    \o (IF is_handled THEN <<>> ELSE <<"view">>)
    \o (IF ~is_handled /\ res = "Consumed(Some(cb))" THEN <<"callback">> ELSE <<>>)

InitInput ==
    /\ compositor \in Compositors
    /\ autoinfo \in {<<>>, <<"info">>}
    /\ updates = <<>>
    /\ inputs = <<>>
    /\ StyleIdle /\ RunIdle /\ RangeIdle /\ PaintIdle /\ OverlayIdle /\ RegionIdle
    /\ DiagIdle /\ CallIdle /\ CellIdle /\ KeyIdle

InputOthers == <<styleVars, runVars, rangeVars, paintVars, overlayVars, regionVars,
                 diagVars, callVars, cellVars, keyVars>>

Input(event, is_handled, offered, emitted) ==
    [event |-> event, is_handled |-> is_handled, offered |-> offered,
     emitted |-> emitted]

\* lines 100-117: InputEvent::Key
InputKey ==
    /\ Len(inputs) < MaxInputs
    /\ \E is_handled \in BOOLEAN,
          res \in {"Ignored", "Consumed(None)", "Consumed(Some(cb))"},
          layers \in Compositors, info \in {<<>>, <<"info">>} :
          /\ is_handled => res = "Ignored"
          /\ LET emitted == EmitOverlays(layers, info) \o <<"Redraw">>
             IN /\ compositor' = layers
                /\ autoinfo' = <<>>
                /\ updates' = updates \o emitted
                /\ inputs' = Append(inputs, Input("Key", is_handled,
                                                  Offered(is_handled, res), emitted))
    /\ UNCHANGED InputOthers

\* lines 118-134: InputEvent::ScrollLines
InputScrollLines ==
    /\ Len(inputs) < MaxInputs
    /\ updates' = Append(updates, "Redraw")
    /\ inputs' = Append(inputs, Input("ScrollLines", FALSE, <<>>, <<"Redraw">>))
    /\ UNCHANGED <<compositor, autoinfo, InputOthers>>

NextInput ==
    \/ InputKey
    \/ InputScrollLines

SpecInput == InitInput /\ [][NextInput]_vars

(***************************************************************************)
(* SpecCells: TextWithStyle::from_buffer (src/src/utils.rs), whose loop is *)
(* also the loop of Prompt::make (src/src/prompt.rs, lines 27-80). A cell  *)
(* holds a symbol, " " or a two-byte "é", and one of two styles; offsets   *)
(* are byte offsets into the text.                                         *)
(***************************************************************************)
MaxWidth == 2     \* rect.width
MaxHeight == 2    \* rect.height

Cells == [symbol : {" ", "é"}, style : {1, 2}]

\* str::len: the bytes of a symbol
SymbolLen(symbol) == IF symbol = "é" THEN 2 ELSE 1

RECURSIVE TextLen(_)
TextLen(symbols) ==
    IF symbols = <<>> THEN 0 ELSE SymbolLen(Head(symbols)) + TextLen(Tail(symbols))

Highlight(from, to, style) == [start |-> from, end |-> to, style |-> style]

\* lines 136-161: one cell of the inner loop
PushCell(highlights, cell) ==
    LET length == SymbolLen(cell.symbol)
        n == Len(highlights)
    IN IF n > 0
       THEN IF cell.style = highlights[n].style
            THEN [highlights EXCEPT ![n].end = @ + length]
            ELSE Append(highlights,
                        Highlight(highlights[n].end, highlights[n].end + length, cell.style))
       ELSE Append(highlights, Highlight(0, length, cell.style))

\* lines 135-162: the inner loop over the cells of a row
RECURSIVE PushCells(_, _)
PushCells(highlights, row) ==
    IF row = <<>> THEN highlights
    ELSE PushCells(PushCell(highlights, Head(row)), Tail(row))

\* line 163: line.chars().all(|c| c == ' ')
AllBlank(row) == \A x \in 1..Len(row) : row[x].symbol = " "

\* lines 164-171: the highlights after a blank row of `line_len` bytes
DropBlank(highlights, line_len) ==
    LET n == Len(highlights)
    IN IF n = 0 THEN highlights
       ELSE LET hl == [highlights[n] EXCEPT !.end = @ - line_len]
            IN IF hl.end = hl.start THEN SubSeq(highlights, 1, n - 1)
               ELSE [highlights EXCEPT ![n] = hl]

InitCells ==
    /\ tpc = "rows"
    /\ \E w \in 1..MaxWidth, h \in 1..MaxHeight : buf \in [1..h -> [1..w -> Cells]]
    /\ buf_y = 1
    /\ styled_text = <<>>
    /\ styled_highlights = <<>>
    /\ StyleIdle /\ RunIdle /\ RangeIdle /\ PaintIdle /\ OverlayIdle /\ RegionIdle
    /\ DiagIdle /\ CallIdle /\ InputIdle /\ KeyIdle

CellOthers == <<styleVars, runVars, rangeVars, paintVars, overlayVars, regionVars,
                diagVars, callVars, inputVars, keyVars>>

\* lines 134-172: a row of blanks: its text is left out
FromBufferBlankRow ==
    /\ tpc = "rows"
    /\ buf_y <= Len(buf)
    /\ AllBlank(buf[buf_y])
    /\ styled_highlights' =
          DropBlank(PushCells(styled_highlights, buf[buf_y]),
                    TextLen([x \in 1..Len(buf[buf_y]) |-> buf[buf_y][x].symbol]))
    /\ buf_y' = buf_y + 1
    /\ UNCHANGED <<tpc, buf, styled_text, CellOthers>>

\* lines 134-162, 173-179: a row with text: the line and "\n" are pushed
FromBufferTextRow ==
    /\ tpc = "rows"
    /\ buf_y <= Len(buf)
    /\ ~AllBlank(buf[buf_y])
    /\ LET pushed == PushCells(styled_highlights, buf[buf_y])
           n == Len(pushed)
       IN styled_highlights' =
             IF n > 0 THEN [pushed EXCEPT ![n].end = @ + 1] ELSE pushed
    /\ styled_text' = styled_text
                      \o [x \in 1..Len(buf[buf_y]) |-> buf[buf_y][x].symbol] \o <<"\n">>
    /\ buf_y' = buf_y + 1
    /\ UNCHANGED <<tpc, buf, CellOthers>>

\* lines 182-185: the loop is over
FromBufferReturn ==
    /\ tpc = "rows"
    /\ buf_y > Len(buf)
    /\ tpc' = "done"
    /\ UNCHANGED <<buf, buf_y, styled_text, styled_highlights, CellOthers>>

NextCells ==
    \/ FromBufferBlankRow
    \/ FromBufferTextRow
    \/ FromBufferReturn

SpecCells == InitCells /\ [][NextCells]_vars

(***************************************************************************)
(* SpecKeys: handle_key_result (src/src/workspace.rs, lines 586-642; the   *)
(* same function is in src/src/utils.rs, lines 63-120). Its caller         *)
(* (workspace.rs, lines 328-364) passes the mode the editor had when the   *)
(* element was painted; the function is entered with any mode argument and *)
(* any editor mode. A command is what its execution makes the mode: it     *)
(* keeps it or sets it.                                                    *)
(***************************************************************************)
MaxCommands == 2    \* commands of a MatchedSequence

Modes == {"Normal", "Insert"}

Commands == {"keep"} \cup Modes

KeymapResult(kind, commands) == [kind |-> kind, commands |-> commands]

KeymapResults ==
    {KeymapResult("Matched", <<c>>) : c \in Commands}
    \cup {KeymapResult("MatchedSequence", cs) :
             cs \in UNION {[1..k -> Commands] : k \in 0..MaxCommands}}
    \cup {KeymapResult(k, <<>>) : k \in {"Pending", "NotFound", "Cancelled"}}

\* command.execute(cxt) and the PostCommand hooks: the editor's mode afterwards
Execute(command, current) == IF command = "keep" THEN current ELSE command

InitKeys ==
    /\ kpc = "match"
    /\ key_result \in KeymapResults
    /\ mode \in Modes
    /\ editor_mode \in Modes
    /\ last_mode = mode
    /\ commands_left = key_result.commands
    /\ executed = <<>>
    /\ returned = <<>>
    /\ autoinfo \in {<<>>, <<"info">>}
    /\ key_entry = autoinfo
    /\ compositor = [picker |-> FALSE, prompt |-> FALSE]
    /\ updates = <<>>
    /\ inputs = <<>>
    /\ StyleIdle /\ RunIdle /\ RangeIdle /\ PaintIdle /\ OverlayIdle /\ RegionIdle
    /\ DiagIdle /\ CallIdle /\ CellIdle

KeyOthers == <<styleVars, runVars, rangeVars, paintVars, overlayVars, regionVars,
               diagVars, callVars, cellVars, compositor, updates, inputs>>

\* lines 604-627 (called at 630-632 and 634-638): execute_command for the
\* next command of Matched or MatchedSequence
KeyExecuteCommand ==
    /\ kpc = "match"
    /\ commands_left # <<>>
    /\ LET command == Head(commands_left)
           current_mode == Execute(command, editor_mode)
       IN /\ editor_mode' = current_mode
          /\ executed' = Append(executed,
                                [command |-> command, before |-> editor_mode,
                                 after |-> current_mode,
                                 OnModeSwitch |-> current_mode # last_mode])
          /\ last_mode' = current_mode
    /\ commands_left' = Tail(commands_left)
    /\ UNCHANGED <<kpc, key_result, mode, returned, key_entry, autoinfo, KeyOthers>>

\* line 641: Matched and MatchedSequence are through
KeyReturnNone ==
    /\ kpc = "match"
    /\ key_result.kind \in {"Matched", "MatchedSequence"}
    /\ commands_left = <<>>
    /\ returned' = <<"None">>
    /\ kpc' = "done"
    /\ UNCHANGED <<key_result, mode, editor_mode, last_mode, commands_left, executed,
                   key_entry, autoinfo, KeyOthers>>

\* line 633: KeymapResult::Pending(node)
KeyPending ==
    /\ kpc = "match"
    /\ key_result.kind = "Pending"
    /\ autoinfo' = <<"info">>
    /\ returned' = <<"None">>
    /\ kpc' = "done"
    /\ UNCHANGED <<key_result, mode, editor_mode, last_mode, commands_left, executed,
                   key_entry, KeyOthers>>

\* line 639: KeymapResult::NotFound | KeymapResult::Cancelled(_)
KeyReturnSome ==
    /\ kpc = "match"
    /\ key_result.kind \in {"NotFound", "Cancelled"}
    /\ returned' = <<"Some", key_result>>
    /\ kpc' = "done"
    /\ UNCHANGED <<key_result, mode, editor_mode, last_mode, commands_left, executed,
                   key_entry, autoinfo, KeyOthers>>

NextKeys ==
    \/ KeyExecuteCommand
    \/ KeyReturnNone
    \/ KeyPending
    \/ KeyReturnSome

SpecKeys == InitKeys /\ [][NextKeys]_vars

(***************************************************************************)
(* Claims about StyleIter (SpecStyle)                                      *)
(***************************************************************************)

\* C5 (Non-overlap invariant): the items StyleIter yields over a legal
\* stream are strictly increasing and non-overlapping: for consecutive
\* items (s1, e1), (s2, e2): s1 < e1 <= s2 < e2.
C5_NonOverlap ==
    \A i \in 1..Len(yielded) :
        /\ yielded[i].start < yielded[i].end
        /\ i > 1 => yielded[i - 1].end <= yielded[i].start

\* Two adjacent spans were yielded and a zero-length Source after them was dropped.
C5_Witness ==
    /\ Len(yielded) >= 2
    /\ yielded[1].end = yielded[2].start
    /\ last_step.n_yielded = 2
    /\ last_step.event.type = "Source"

\* The value of field f after patching base with the styles of the tags of
\* stack, bottom to top: that of the topmost tag that sets f, else base's.
TopmostSetting(stack, base, f) ==
    LET setters == {i \in 1..Len(stack) : ThemeHighlight(stack[i])[f] # None}
    IN IF setters = {} THEN base[f]
       ELSE ThemeHighlight(stack[CHOOSE i \in setters : \A j \in setters : j <= i])[f]

\* C6: HighlightStart pushes its tag, HighlightEnd pops, and every non-empty
\* Source{start, end} yields (resolved, start, end) and leaves the stack
\* alone, where each field of resolved is the one set by the topmost open
\* tag that sets it, and the base style's where no open tag does.
C6_StackFold ==
    LET ev == last_step.event
        before == last_step.before
    IN /\ ev.type = "HighlightStart" =>
             iter.active_highlights = Append(before, ev.highlight)
       /\ ev.type = "HighlightEnd" =>
             /\ Len(iter.active_highlights) = (IF before = <<>> THEN 0 ELSE Len(before) - 1)
             /\ \A i \in 1..Len(iter.active_highlights) :
                   iter.active_highlights[i] = before[i]
       /\ (ev.type = "Source" /\ ev.start # ev.end) =>
             /\ last_step.what = "yield"
             /\ Len(yielded) = last_step.n_yielded + 1
             /\ iter.active_highlights = before
             /\ LET item == yielded[Len(yielded)]
                IN /\ item.start = ev.start
                   /\ item.end = ev.end
                   /\ \A f \in {"fg", "bg", "underline_color"} :
                         item.style[f] = TopmostSetting(before, iter.text_style, f)

\* A span was yielded under two open tags, the later overriding the
\* foreground the earlier one sets.
C6_Witness ==
    /\ last_step.what = "yield"
    /\ Len(last_step.before) >= 2
    /\ ThemeHighlight(last_step.before[1]).fg
          \notin {None, yielded[Len(yielded)].style.fg}

\* C8: StyleIter never yields a span with start = end, and consuming a
\* zero-length Source changes neither the active-highlight stack nor what
\* has been yielded.
C8_ZeroLengthDropped ==
    /\ \A i \in 1..Len(yielded) : yielded[i].start # yielded[i].end
    /\ (last_step.event.type = "Source"
            /\ last_step.event.start = last_step.event.end) =>
          /\ last_step.what = "continue"
          /\ iter.active_highlights = last_step.before
          /\ Len(yielded) = last_step.n_yielded

\* A zero-length Source was consumed while a highlight was open.
C8_Witness ==
    /\ last_step.event.type = "Source"
    /\ last_step.event.start = last_step.event.end
    /\ last_step.before # <<>>

(***************************************************************************)
(* Claims about the run builder (SpecRuns)                                 *)
(***************************************************************************)
RECURSIVE SumLen(_)
SumLen(rs) == IF rs = <<>> THEN 0 ELSE Head(rs).len + SumLen(Tail(rs))

\* Every span a StyleIter over `events` yields, as a set.
RECURSIVE SpansFrom(_)
SpansFrom(it) ==
    LET r == StyleIterNext(it)
    IN IF r.what = "yield" THEN {r.item} \cup SpansFrom(r.iter) ELSE {}

SyntaxSpans  == SpansFrom(NewStyleIter(DefaultStyle, syntax_highlights))
OverlaySpans == SpansFrom(NewStyleIter(DefaultStyle, overlay_highlights))
AllSpans     == SyntaxSpans \cup OverlaySpans

Covers(sp, p) == sp.start <= p /\ p < sp.end

IsDefaultRun(run) ==
    run.color = FgColor /\ run.background_color = None /\ run.underline = None

\* C1 (Coverage invariant): when highlight returns, the `len` fields of its
\* runs sum to end_char - anchor.
C1_Coverage == pc = "done" => SumLen(runs) = end_char - anchor

\* C2: highlight never emits a TextRun of length 0.
C2_NoEmptyRun == \A i \in 1..Len(runs) : runs[i].len # 0

\* The span boundaries after p: the end of every span active at p and the
\* start of every span that has not started at p.
BoundariesAfter(p) ==
    {sp.end : sp \in {x \in AllSpans : Covers(x, p)}}
        \cup {sp.start : sp \in {x \in AllSpans : p < x.start}}

\* C3: a run stops at the nearest span boundary: where a span ends or starts
\* between the run's position and end_char, the run ends at the first such
\* boundary; no run runs across the start of a later span.
C3_StopsAtBoundary ==
    \A i \in 1..Len(runs) :
        LET p == log[i].position
        IN \A b \in BoundariesAfter(p) :
              b < end_char => p + runs[i].len <= b

\* C4: a run at a position that no syntax span and no overlay span covers is
\* a default-style run: default foreground, no background, no underline.
C4_DefaultInGaps ==
    \A i \in 1..Len(runs) :
        (\A sp \in AllSpans : ~Covers(sp, log[i].position)) => IsDefaultRun(runs[i])

\* C7: at a position inside both the current syntax span and the current
\* overlay span, every field of the run's style that the overlay style sets
\* has the overlay's value, and every other field has the syntax span's; the
\* TextRun carries these colours.
C7_OverlayPatchesSyntax ==
    \A i \in 1..Len(runs) :
        LET p == log[i].position
            syn == log[i].syntax_span
            ovl == log[i].overlay_span
            want(f) == IF ovl.style[f] # None THEN ovl.style[f] ELSE syn.style[f]
        IN (Covers(syn, p) /\ Covers(ovl, p)) =>
              /\ \A f \in {"fg", "bg", "underline_color"} : log[i].style[f] = want(f)
              /\ runs[i].color = (IF want("fg") = None THEN FgColor
                                  ELSE color_to_hsla(want("fg")))
              /\ runs[i].background_color = (IF want("bg") = None THEN None
                                             ELSE color_to_hsla(want("bg")))
              /\ runs[i].underline = (IF want("underline_color") = None THEN None
                                      ELSE color_to_hsla(want("underline_color")))

\* A run inside a syntax span and an overlay span that both set the
\* background, the syntax span alone setting the foreground.
C7_Witness ==
    \E i \in 1..Len(runs) :
        LET p == log[i].position
            syn == log[i].syntax_span
            ovl == log[i].overlay_span
        IN /\ Covers(syn, p) /\ Covers(ovl, p)
           /\ syn.end # UsizeMax /\ ovl.end # UsizeMax
           /\ syn.style.bg # None /\ ovl.style.bg # None
           /\ syn.style.bg # ovl.style.bg
           /\ syn.style.fg # None /\ ovl.style.fg = None

(***************************************************************************)
(* Claims about the visible range (SpecPaint)                              *)
(***************************************************************************)
\* The line breaks among chars a+1..b of the rope.
BreaksBetween(a, b) == Cardinality({i \in (a + 1)..b : text[i] = "\n"})

LastLine == BreaksBetween(0, Len(text))

Ranged == ppc \in {"ranged", "shaped", "painted",
                   "shape_text_panicked", "shape_line_panicked"}

Computed == Ranged \/ ppc = "panicked"

\* C9, as amended: the range computed for a frame starts at the viewport
\* anchor, which lies in row first_row (the row of the buffer's end for a
\* stale anchor), and ends just after the line break that ends document
\* line first_row + rows, or at the end of the buffer when the buffer has no
\* such line; the gutter gets the lines first_row..last_row - 1; so at most
\* rows + 1 document lines are handed to the shaper and to the gutter.
C9_VisibleRange ==
    /\ Computed =>
          /\ first_row = BreaksBetween(0, Min(view_anchor, Len(text)))
          /\ last_row - first_row <= layout_rows + 1
          /\ \/ /\ end_char = Len(text)
                /\ LastLine <= first_row + layout_rows
                /\ last_row = LastLine + 1
             \/ /\ end_char >= 1
                /\ text[end_char] = "\n"
                /\ BreaksBetween(0, end_char) = first_row + layout_rows + 1
                /\ last_row = first_row + layout_rows + 1
    /\ Ranged =>
          /\ text_view = <<view_anchor, end_char>>
          /\ BreaksBetween(view_anchor, end_char) <= layout_rows + 1
    /\ ppc = "painted" =>
          /\ Len(gutter_lines) = last_row - first_row
          /\ \A i \in 1..Len(gutter_lines) :
                /\ gutter_lines[i].doc_line = first_row + i - 1
                /\ gutter_lines[i].visual_line = i - 1

\* A painted frame whose buffer goes on below the viewport: rows + 1 lines
\* were handed over.
C9_Witness ==
    /\ ppc = "painted"
    /\ layout_rows >= 1
    /\ end_char < Len(text)
    /\ Len(gutter_lines) = layout_rows + 1

SatSub(a, b) == IF a >= b THEN a - b ELSE 0

\* C9 as stated: the range starts at the first char of row = line_of(anchor)
\* and ends at the start of line last_visible_line + 1, where
\* last_visible_line = min(row + viewport_rows - 1, last_line); at most
\* viewport_rows lines are handed over.
C9_AsStated ==
    /\ Ranged =>
          LET row == char_to_line(text, view_anchor)
              last_visible_line == Min(SatSub(row + layout_rows, 1), LastLine)
          IN /\ text_view[1] = line_to_char(text, row)
             /\ text_view[2] = line_to_char(text, last_visible_line + 1)
    /\ ppc = "painted" => Len(gutter_lines) <= layout_rows

\* C10: the visible-range computation never panics, the range it slices
\* satisfies start <= end <= buffer length, and an empty buffer gives an
\* empty range - for any buffer and any anchor, stale ones included.
C10_RangeClamped ==
    /\ ppc # "panicked"
    /\ Ranged =>
          /\ text_view[1] <= text_view[2]
          /\ text_view[2] <= Len(text)
          /\ text = <<>> => text_view[1] = text_view[2]

\* C14 (shaping failure): a failure of the text shaper, for the document
\* text or for a gutter text, does not crash the process: no frame ends in
\* the panic of an unwrapped shaper error.
C14_ShaperFailureSurvived ==
    ppc \notin {"shape_text_panicked", "shape_line_panicked"}

\* The chars of document line l, its line break not counted.
LineLen(l) ==
    LET start == line_to_char(text, l)
        stop  == line_to_char(text, l + 1)
    IN IF stop > start /\ text[stop] = "\n" THEN stop - start - 1 ELSE stop - start

\* The visual rows document line l takes: one, or with soft wrap as many as
\* its chars need at layout_columns chars a row.
VisualRows(l) ==
    IF soft_wrap /\ LineLen(l) > layout_columns
    THEN (LineLen(l) + layout_columns - 1) \div layout_columns
    ELSE 1

LinesOf(l) == {i \in 1..Len(gutter_lines) : gutter_lines[i].doc_line = l}

\* C20 (Scenario C): in a painted frame, for every document line of the
\* viewport soft-wrapped over N > 1 visual rows the gutter lines hold N
\* entries of that doc_line, on consecutive visual lines: the first with
\* first_visual_line = true, the N - 1 after it with first_visual_line = false.
C20_WrappedGutterLines ==
    ppc = "painted" =>
        \A l \in first_row..(last_row - 1) :
            VisualRows(l) > 1 =>
                /\ Cardinality(LinesOf(l)) = VisualRows(l)
                /\ \A i \in LinesOf(l), j \in LinesOf(l) :
                      j = i + 1 =>
                          gutter_lines[j].visual_line = gutter_lines[i].visual_line + 1
                /\ Cardinality({i \in LinesOf(l) : gutter_lines[i].first_visual_line}) = 1
                /\ \A i \in LinesOf(l) :
                      gutter_lines[i].first_visual_line = (i - 1 \notin LinesOf(l))

(***************************************************************************)
(* Claims about StyleIter over malformed streams (SpecMalformed)           *)
(***************************************************************************)

\* C13 (malformed stream): a HighlightEnd met with no highlight open leaves
\* the stack empty and yields nothing, and no Source that starts before the
\* end of the span yielded before it is yielded: the yielded spans never
\* step back.
C13_MalformedDiscarded ==
    /\ (last_step.event.type = "HighlightEnd" /\ last_step.before = <<>>) =>
          /\ iter.active_highlights = <<>>
          /\ Len(yielded) = last_step.n_yielded
    /\ \A i \in 2..Len(yielded) : yielded[i - 1].end <= yielded[i].start

(***************************************************************************)
(* Claims about overlay_highlights and merge (SpecOverlay)                 *)
(***************************************************************************)

\* The spans a StyleIter yields from `it` on, each with the active
\* highlights it was resolved under.
RECURSIVE Resolved(_)
Resolved(it) ==
    LET r == StyleIterStep(it)
    IN IF r.what = "none" THEN <<>>
       ELSE IF r.what = "yield"
            THEN <<[start |-> r.item.start, end |-> r.item.end,
                    style |-> r.item.style, stack |-> it.active_highlights]>>
                 \o Resolved(r.iter)
            ELSE Resolved(r.iter)

ResolvedAt(stream, p) ==
    LET rs == Resolved(NewStyleIter(DefaultStyle, stream))
    IN {rs[i] : i \in {j \in 1..Len(rs) : rs[j].start <= p /\ p < rs[j].end}}

\* The active stacks, and the resolved styles, of a stream at char p.
StacksAt(stream, p) == {x.stack : x \in ResolvedAt(stream, p)}
StylesAt(stream, p) == {x.style : x \in ResolvedAt(stream, p)}

OPositions == 0..(MaxOPos - 1)
VisiblePositions == {p \in OPositions : view_chars[1] <= p /\ p < view_chars[2]}

CoversAt(spans, p) == \E i \in 1..Len(spans) : spans[i].start <= p /\ p < spans[i].end
ScopeOf(spans) == IF spans = <<>> THEN 0 ELSE spans[1].scope

CountStarts(stream, scope) ==
    Cardinality({i \in 1..Len(stream) : stream[i] = HighlightStart(scope)})

DiagnosticScopeSet == {DiagnosticScopes[i] : i \in 1..Len(DiagnosticScopes)}

FoldOrder == <<SelectionScope, FocusedScope>> \o DiagnosticScopes

OrderOf(scope) == CHOOSE i \in 1..Len(FoldOrder) : FoldOrder[i] = scope

\* C12 (fold order): the streams are merged in the order selection, focused
\* view elements, diagnostic buckets as produced; at a visible char covered
\* by spans of two merged streams the scope of the one merged later is above
\* the other's in the active stack, and every style field the topmost
\* covering stream's highlight sets is the resolved style's.
C12_LaterOnTop ==
    /\ \A j \in 1..Len(merges), k \in 1..Len(merges) :
          (j < k /\ merges[j].spans # <<>> /\ merges[k].spans # <<>>) =>
              OrderOf(ScopeOf(merges[j].spans)) < OrderOf(ScopeOf(merges[k].spans))
    /\ opc = "done" =>
          \A p \in VisiblePositions :
              /\ StacksAt(overlay_iter, p) # {}
              /\ \A j \in 1..Len(merges), k \in 1..Len(merges) :
                    (j < k /\ CoversAt(merges[j].spans, p) /\ CoversAt(merges[k].spans, p)) =>
                        \A st \in StacksAt(overlay_iter, p) :
                            \E a \in 1..Len(st), b \in 1..Len(st) :
                                /\ a < b
                                /\ st[a] = ScopeOf(merges[j].spans)
                                /\ st[b] = ScopeOf(merges[k].spans)
              /\ \A k \in 1..Len(merges) :
                    (/\ CoversAt(merges[k].spans, p)
                     /\ \A l \in (k + 1)..Len(merges) : ~CoversAt(merges[l].spans, p)) =>
                        \A x \in ResolvedAt(overlay_iter, p) :
                            LET top == ThemeHighlight(ScopeOf(merges[k].spans))
                            IN /\ top.fg # None => x.style.fg = top.fg
                               /\ top.bg # None => x.style.bg = top.bg
                               /\ top.underline_color # None =>
                                     x.style.underline_color = top.underline_color

\* A focused view: a selection, a focused-view element and a span of each
\* diagnostic bucket all cover the first visible char.
C12_Witness ==
    /\ opc = "done"
    /\ Len(merges) = 2 + Len(DiagnosticScopes)
    /\ \A k \in 1..Len(merges) : CoversAt(merges[k].spans, view_chars[1])

\* The stream a merge produced: what the next merge went onto, the overlay
\* built so far for the last one.
After(k) == IF k < Len(merges) THEN merges[k + 1].onto ELSE overlay_iter

\* C16 (merge associativity): folding one more stream on top of the streams
\* merged so far leaves, at every visible char, the active stack those
\* streams gave and puts the new stream's scope on top of it where the new
\* stream covers the char; so the stack after [A, B, C] is the stack after
\* [A, B] with C folded on top.
C16_FoldOnTop ==
    \A k \in 1..Len(merges) :
        \A p \in VisiblePositions :
            StacksAt(After(k), p) =
                {IF CoversAt(merges[k].spans, p)
                 THEN Append(st, ScopeOf(merges[k].spans)) ELSE st :
                    st \in StacksAt(merges[k].onto, p)}

\* Three streams were merged and all three cover one visible char.
C16_Witness ==
    /\ opc = "done"
    /\ Len(merges) >= 3
    /\ \E p \in VisiblePositions :
          \A k \in 1..3 : CoversAt(merges[k].spans, p)

\* Every bucket merged, the empty ones too.
RECURSIVE FoldAll(_, _)
FoldAll(stream, buckets) ==
    IF buckets = <<>> THEN stream
    ELSE FoldAll(Merge(stream, Head(buckets)), Tail(buckets))

\* The overlay as it is when the loop over the buckets begins.
BeforeBuckets ==
    IF is_view_focused
    THEN FocusedOverlay(empty_highlight_iter(view_chars),
                        doc_selection_highlights(selection), focused_view_elements)
    ELSE empty_highlight_iter(view_chars)

\* C17 (empty overlay): merging no spans onto the overlay built so far
\* resolves to the same style at every char as that overlay, and the overlay
\* returned, built skipping empty buckets, resolves to the same style at
\* every char as the overlay built by merging every bucket.
C17_EmptyMergeIdentity ==
    /\ \A p \in OPositions :
          StylesAt(Merge(overlay_iter, <<>>), p) = StylesAt(overlay_iter, p)
    /\ opc = "done" =>
          \A p \in OPositions :
              StylesAt(overlay_iter, p) = StylesAt(FoldAll(BeforeBuckets, diagnostics), p)

\* The first bucket was skipped as empty, the second one merged, onto an
\* overlay that carries a selection.
C17_Witness ==
    /\ opc = "done"
    /\ is_view_focused
    /\ selection # <<>>
    /\ diagnostics[1] = <<>>
    /\ diagnostics[2] # <<>>

(***************************************************************************)
(* Claims about DocumentView::highlights (SpecHighlights)                  *)
(***************************************************************************)

\* C15 (syntax error): an error yielded by the syntax engine's highlight
\* iterator does not abort the frame: highlighting never ends in a panic.
C15_SyntaxErrorSurvived == hpc # "panicked"

\* C18 (grapheme safety): every byte offset of a Source is converted to a
\* char offset whose byte offset is not before the input, lies between two
\* grapheme clusters, is the rounded offset itself and converts back to the
\* same char offset.
C18_GraphemeSafe ==
    \A i \in 1..Len(converted) :
        LET back == char_to_byte(hl_text, converted[i].char)
        IN /\ back >= converted[i].byte
           /\ back \in GraphemeBoundaries(hl_text)
           /\ back = ensure_grapheme_boundary_next_byte(hl_text, converted[i].byte)
           /\ byte_to_char(hl_text, back) = converted[i].char

\* A Source offset inside a cluster of a multi-byte char and a combining
\* mark was converted: it was rounded forward.
C18_Witness ==
    /\ \E c \in 1..Len(hl_text) : hl_text[c].extend /\ c > 1
    /\ \E i \in 1..Len(converted) :
          /\ converted[i].byte \notin GraphemeBoundaries(hl_text)
          /\ char_to_byte(hl_text, converted[i].char) > converted[i].byte

(***************************************************************************)
(* Claims about Scenario A (SpecScenario)                                  *)
(***************************************************************************)
\* The frame of Scenario A: the buffer is "fn main() {}\n".
ScenarioA == pc = "done" /\ end_char = ScenarioLen(Len(<<"m", "a", "i", "n">>))

\* The four runs of "fn <name>() {}\n": `fn` in the style of its tag, the
\* blank in the default style, the name in the style of its tag, the rest
\* in the default style.
FourRuns ==
    LET tag1 == syntax_highlights[1].highlight
        tag2 == syntax_highlights[5].highlight
        n    == end_char - ScenarioLen(0)
    IN runs = <<TextRun(Patch(DefaultStyle, ThemeHighlight(tag1)), Len(<<"f", "n">>)),
                TextRun(DefaultStyle, Len(<<" ">>)),
                TextRun(Patch(DefaultStyle, ThemeHighlight(tag2)), n),
                TextRun(DefaultStyle, Len(<<"(", ")", " ", "{", "}", "\n">>))>>

\* C19 (Scenario A), as amended: for "fn main() {}\n" shown whole, `fn` and
\* `main` tagged with distinct tags, no selection and no diagnostics, the
\* run builder returns exactly the 4 runs `fn` (tag1 style), ` ` (default),
\* `main` (tag2 style), `() {}\n` (default), and their lengths total 13,
\* the chars of the buffer.
C19_ScenarioA ==
    /\ pc = "done" => FourRuns /\ SumLen(runs) = end_char
    /\ ScenarioA => Len(runs) = 4 /\ SumLen(runs) = 13

\* Scenario A was built: four runs, the third of the 4 chars of `main`.
C19_Witness ==
    /\ ScenarioA
    /\ Len(runs) = 4
    /\ runs[3].len = 4
    /\ runs[1].color # runs[3].color

\* C19 as stated: the 4 runs, whose lengths total 14.
C19_AsStated ==
    ScenarioA => FourRuns /\ SumLen(runs) = 14

(***************************************************************************)
(* Claims about the frame's effect on the view (SpecPaint)                 *)
(***************************************************************************)
\* C21: rendering one frame never mutates the viewport: the anchor, the rows
\* and the columns of the view are the same after each step of the frame
\* (request_layout, prepaint, paint) as before it.
C21_ViewportUnchanged ==
    [][view_area' = view_area /\ view_anchor' = view_anchor]_vars

(***************************************************************************)
(* Claims about the diagnostics store (SpecDiagnostics)                    *)
(***************************************************************************)
ListOf(store, p) == IF store[p] = Vacant THEN <<>> ELSE store[p][1]

ServerPart(list, server_id) == SelectSeq(list, LAMBDA e : e.server = server_id)

OthersPart(list, server_id) == SelectSeq(list, LAMBDA e : e.server # server_id)

Count(list, x) == Cardinality({i \in 1..Len(list) : list[i] = x})

\* the same elements, each as many times
SameElements(a, b) ==
    /\ Len(a) = Len(b)
    /\ \A i \in 1..Len(a) : Count(a, a[i]) = Count(b, a[i])

DiagnosticsOf(list) == [i \in 1..Len(list) |-> list[i].diagnostic]

OrderedBySeverity(list) ==
    \A i, j \in 1..Len(list) :
        i < j =>
            LET a == list[i]
                b == list[j]
            IN \/ a.diagnostic.severity < b.diagnostic.severity
               \/ /\ a.diagnostic.severity = b.diagnostic.severity
                  /\ a.diagnostic.start < b.diagnostic.start
               \/ /\ a.diagnostic.severity = b.diagnostic.severity
                  /\ a.diagnostic.start = b.diagnostic.start
                  /\ a.server <= b.server

\* C22: after any sequence of PublishDiagnostics and Exit notifications every
\* per-path list of the diagnostics store is ordered by severity, ties by
\* range start, then by server id.
C22_StoreOrdered ==
    \A p \in Paths : OrderedBySeverity(ListOf(editor_diagnostics, p))

\* A second server's diagnostic was appended to the first one's and the sort
\* moved it to the front.
C22_Witness ==
    /\ notification.outcome = "stored"
    /\ notification.others = 1
    /\ Len(ListOf(editor_diagnostics, notification.path)) = 2
    /\ ListOf(editor_diagnostics, notification.path)[1].server = notification.server
    /\ notification.server = 2

\* C23: an accepted PublishDiagnostics from server S for path P leaves for P
\* exactly the notification's diagnostics attributed to S plus what was
\* stored for P from other servers; so the store always holds, per path and
\* server, the list that server published last for that path (none once the
\* server has exited).
C23_PerServerReplacement ==
    /\ [](\A p \in Paths, id \in Servers :
            SameElements(DiagnosticsOf(ServerPart(ListOf(editor_diagnostics, p), id)),
                         published[p][id]))
    /\ [][notification'.outcome = "stored" =>
            LET P == notification'.path
                S == notification'.server
                after == ListOf(editor_diagnostics', P)
                before == ListOf(editor_diagnostics, P)
            IN /\ editor_diagnostics'[P] # Vacant
               /\ SameElements(DiagnosticsOf(ServerPart(after, S)),
                               notification'.diagnostics)
               /\ SameElements(OthersPart(after, S), OthersPart(before, S))]_vars

\* A notification with a diagnostic was stored next to another server's.
C23_Witness ==
    /\ notification.outcome = "stored"
    /\ notification.diagnostics # <<>>
    /\ notification.others = 1
    /\ Len(ListOf(editor_diagnostics, notification.path)) = 2

\* C24: after an Exit from server S no list holds a diagnostic of S, no path
\* maps to an empty list, S is not in the registry and the diagnostics of
\* other servers are as they were.
C24_ExitClears ==
    [][notification'.kind = "Exit" =>
        LET S == notification'.server
        IN /\ \A p \in Paths :
                 /\ ServerPart(ListOf(editor_diagnostics', p), S) = <<>>
                 /\ editor_diagnostics'[p] # Occupied(<<>>)
                 /\ OthersPart(ListOf(editor_diagnostics', p), S)
                        = OthersPart(ListOf(editor_diagnostics, p), S)
           /\ language_servers'[S] = "absent"]_vars

\* An Exit removed diagnostics, emptied one path's list and left another
\* server's diagnostics in place.
C24_Witness ==
    /\ notification.kind = "Exit"
    /\ notification.others >= 1
    /\ notification.emptied = 1
    /\ \E p \in Paths : ListOf(editor_diagnostics, p) # <<>>

\* C25: a PublishDiagnostics whose version differs from the version of the
\* open document of its path changes neither the diagnostics store nor the
\* document's diagnostics.
C25_StaleVersionDropped ==
    [][(/\ notification'.kind = "PublishDiagnostics"
        /\ notification'.outcome = "stored"
        /\ notification'.version # <<>>
        /\ \E i \in DOMAIN documents :
              /\ documents[i].path = notification'.path
              /\ documents[i].version # notification'.version[1])
       => /\ editor_diagnostics' = editor_diagnostics
          /\ documents' = documents]_vars

(***************************************************************************)
(* Claims about method calls (SpecMethodCalls)                             *)
(***************************************************************************)
RepliesTo(id) == {i \in 1..Len(replies) : replies[i].id = id}

BeingHandled(id) == mpc = "reply" /\ reply[1].id = id

\* C26: every MethodCall of a server that is registered when the call is
\* dequeued gets, by the time its handler is done, exactly one reply with
\* the request's id, a result or a JSON-RPC error, whatever the method; no
\* call ever gets two.
C26_OneReply ==
    \A k \in 1..Len(dequeued) :
        LET c == dequeued[k]
        IN /\ Cardinality(RepliesTo(c.id)) <= 1
           /\ (c.call = "MethodCall" /\ c.registered /\ ~BeingHandled(c.id)) =>
                 \E i \in 1..Len(replies) :
                    /\ RepliesTo(c.id) = {i}
                    /\ replies[i].server = c.server
                    /\ replies[i].reply \in {"Ok", "Err(MethodNotFound)", "Err(ParseError)",
                                            "Err(InvalidRequest)"}

\* A workspace/workspaceFolders call and a call that does not parse were
\* both answered, the second with an error.
C26_Witness ==
    /\ mpc = "idle"
    /\ Len(replies) = 2
    /\ \E k \in 1..Len(dequeued) : dequeued[k].method = "WorkspaceFolders"
    /\ \E i \in 1..Len(replies) : replies[i].reply = "Err(ParseError)"

(***************************************************************************)
(* Claims about input events (SpecInput)                                   *)
(***************************************************************************)
RECURSIVE Flatten(_)
Flatten(seqs) == IF seqs = <<>> THEN <<>> ELSE Head(seqs) \o Flatten(Tail(seqs))

Times(seq, x) == Cardinality({i \in 1..Len(seq) : seq[i] = x})

\* the updates of `seq` are in the order Picker, Prompt, Info, Redraw
InOrder(seq) ==
    LET place(u) == CASE u = "Picker" -> 1 [] u = "Prompt" -> 2
                      [] u = "Info" -> 3 [] u = "Redraw" -> 4 [] OTHER -> 0
    IN \A i, j \in 1..Len(seq) : i < j => place(seq[i]) < place(seq[j])

\* C27: a key is offered to the compositor first and to the editor view only
\* if the compositor did not handle it; the handler then emits at most one
\* Picker, at most one Prompt, at most one Info (editor.autoinfo is None
\* afterwards), in this order, and finally exactly one Redraw. A ScrollLines
\* emits exactly one Redraw and nothing else.
C27_InputUpdates ==
    /\ updates = Flatten([k \in 1..Len(inputs) |-> inputs[k].emitted])
    /\ \A k \in 1..Len(inputs) :
          LET e == inputs[k]
          IN IF e.event = "Key"
             THEN /\ e.offered[1] = "compositor"
                  /\ (\E i \in 1..Len(e.offered) : e.offered[i] = "view") <=> ~e.is_handled
                  /\ InOrder(e.emitted)
                  /\ \A u \in {"Picker", "Prompt", "Info"} : Times(e.emitted, u) <= 1
                  /\ Times(e.emitted, "Redraw") = 1
                  /\ e.emitted[Len(e.emitted)] = "Redraw"
                  /\ \A i \in 1..Len(e.emitted) :
                        e.emitted[i] \in {"Picker", "Prompt", "Info", "Redraw"}
             ELSE e.emitted = <<"Redraw">>
    /\ (inputs # <<>> /\ inputs[Len(inputs)].event = "Key") => autoinfo = <<>>

\* A key the compositor left to the view brought all four updates, and a
\* scroll followed it.
C27_Witness ==
    /\ Len(inputs) = 2
    /\ inputs[1].event = "Key"
    /\ ~inputs[1].is_handled
    /\ inputs[1].emitted = <<"Picker", "Prompt", "Info", "Redraw">>
    /\ inputs[2].event = "ScrollLines"
    /\ updates = <<"Picker", "Prompt", "Info", "Redraw", "Redraw">>

(***************************************************************************)
(* Claims about the termination of the run builder (SpecLoop)              *)
(***************************************************************************)
\* Every iteration moves position forward or, with a run of length 0, moves
\* a cursor to the next Source of its stream.
IterationBound ==
    (IF end_char > anchor THEN end_char - anchor ELSE 0)
    + Len(syntax_highlights) + Len(overlay_highlights) + 1

\* C28: for any anchor, any end_char and any two finite span streams, legal
\* or malformed, the loop of highlight ends with position >= end_char after
\* finitely many iterations (at most IterationBound), and position never
\* decreases.
C28_LoopTerminates ==
    /\ <>(pc = "done" /\ position >= end_char)
    /\ [](Len(runs) <= IterationBound)
    /\ [][position' >= position]_vars

\* The loop ended over a syntax stream with a Source that ends before it
\* starts, after a run of length 0.
C28_Witness ==
    /\ pc = "done"
    /\ position >= end_char
    /\ Len(runs) >= 3
    /\ \E i \in 1..Len(runs) : runs[i].len = 0
    /\ \E i \in 1..Len(syntax_highlights) :
          syntax_highlights[i].start > syntax_highlights[i].end

(***************************************************************************)
(* Claims about TextWithStyle::from_buffer (SpecCells)                     *)
(***************************************************************************)
\* C29: for every cell buffer the highlight ranges from_buffer returns
\* partition the text it returns: every range has start < end, each starts
\* where the previous one ends, the first starts at 0 and the last ends at
\* the byte length of the text; also with all-blank rows and with rows of
\* more than one style.
C29_RangesPartitionText ==
    tpc = "done" =>
        LET n == Len(styled_highlights)
        IN /\ \A i \in 1..n : styled_highlights[i].start < styled_highlights[i].end
           /\ \A i \in 2..n : styled_highlights[i].start = styled_highlights[i - 1].end
           /\ n > 0 => styled_highlights[1].start = 0
           /\ n > 0 => styled_highlights[n].end = TextLen(styled_text)
           /\ n = 0 => TextLen(styled_text) = 0

(***************************************************************************)
(* Claims about handle_key_result (SpecKeys)                               *)
(***************************************************************************)
\* C30: handle_key_result returns Some(key_result) exactly for NotFound and
\* Cancelled, then with no command executed and editor.autoinfo as it was;
\* for Matched, MatchedSequence and Pending it returns None with the matched
\* commands executed in order (Pending: none, and autoinfo set); after each
\* command OnModeSwitch is dispatched exactly when the editor's mode after
\* the command differs from its mode before the command.
C30_KeyResult ==
    kpc = "done" =>
        /\ (returned = <<"Some", key_result>>) <=> key_result.kind \in {"NotFound", "Cancelled"}
        /\ key_result.kind \in {"NotFound", "Cancelled"} =>
              executed = <<>> /\ autoinfo = key_entry
        /\ key_result.kind \in {"Matched", "MatchedSequence", "Pending"} =>
              /\ returned = <<"None">>
              /\ [i \in 1..Len(executed) |-> executed[i].command] = key_result.commands
        /\ key_result.kind = "Pending" => autoinfo # <<>>
        /\ \A i \in 1..Len(executed) :
              executed[i].OnModeSwitch <=> executed[i].after # executed[i].before
====
